---------------------------- MODULE Spec2Model ----------------------------
(***************************************************************************)
(* Model of server/app/config.py: the settings schema's validators         *)
(* (validate_port, validate_encoder), LoadConfig / Config / GetServerPort  *)
(* over the process-wide singleton _CONFIG, and SaveConfig's line patcher. *)
(*                                                                         *)
(* Text is modelled as sequences of atoms (one atom is one character or    *)
(* one fixed multi-character token such as "/host-rootfs").                *)
(***************************************************************************)
EXTENDS Integers, Sequences, FiniteSets, TLC

VARIABLES
    file,       \* config.yaml on disk: Missing, or its sequence of lines
    _CONFIG,    \* the module global _CONFIG: None or a ServerSettings value
    pending,    \* a ServerSettings object held by a caller (to be saved)
    ret,        \* what the last call did: operation, outcome, value, logs
    hist,       \* how many LoadConfig calls were made, and the one that succeeded
    edits,      \* how many times the file was edited from outside
    docker,     \* GetPlatformEnvironment() == 'Linux-Docker'
    inp,        \* inputs of the function under check (validator / patcher)
    out         \* its result

vars == <<file, _CONFIG, pending, ret, hist, edits, docker, inp, out>>

\* Python's None; every modelled Python value is a record tagged by its type.
None == [t |-> "NoneType"]

\* config.yaml does not exist.
Missing == [exists |-> FALSE]

\* conn.pid is None (no resolvable owner); no port named in a message.
NoPid == 0 - 1
NoPort == 0 - 1

(***************************************************************************)
(* Python values and text                                                  *)
(***************************************************************************)

PyInt(n) == [t |-> "int", v |-> n]
\* A float with one decimal digit, held in tenths: PyFloat(5) is 0.5.
PyFloat(tenths) == [t |-> "float", v |-> tenths]
PyBool(b) == [t |-> "bool", v |-> b]
PyStr(atoms) == [t |-> "str", v |-> atoms]
\* A pathlib.Path, as pydantic's FilePath / DirectoryPath fields hold.
PyPath(atoms) == [t |-> "Path", v |-> atoms]
PyList(items) == [t |-> "list", v |-> items]

Digits == <<"0", "1", "2", "3", "4", "5", "6", "7", "8", "9">>
DigitSet == { Digits[i] : i \in 1..10 }
DigitValue(a) == (CHOOSE i \in 1..10 : Digits[i] = a) - 1

RECURSIVE IntToAtoms(_)
IntToAtoms(n) ==
    IF n < 0 THEN <<"-">> \o IntToAtoms(0 - n)
    ELSE IF n < 10 THEN <<Digits[n + 1]>>
    ELSE IntToAtoms(n \div 10) \o <<Digits[(n % 10) + 1]>>

RECURSIVE AtomsToInt(_)
AtomsToInt(atoms) ==
    IF atoms = <<>> THEN 0
    ELSE AtomsToInt(SubSeq(atoms, 1, Len(atoms) - 1)) * 10 + DigitValue(atoms[Len(atoms)])

Join(seqs, sep) ==
    LET RECURSIVE J(_)
        J(i) == IF i > Len(seqs) THEN <<>>
                ELSE IF i = Len(seqs) THEN seqs[i]
                ELSE seqs[i] \o sep \o J(i + 1)
    IN  J(1)

\* str(value), and repr(value) for the items of a list.
RECURSIVE Str(_)
Str(value) ==
    CASE value.t = "int" -> IntToAtoms(value.v)
      [] value.t = "float" -> IntToAtoms(value.v \div 10) \o <<".", Digits[(value.v % 10) + 1]>>
      [] value.t = "bool" -> IF value.v THEN <<"True">> ELSE <<"False">>
      [] value.t = "NoneType" -> <<"None">>
      [] value.t = "str" -> value.v
      [] value.t = "Path" -> value.v
      [] value.t = "list" ->
            <<"[">> \o Join([i \in 1..Len(value.v) |->
                               IF value.v[i].t = "str"
                               THEN <<"'">> \o value.v[i].v \o <<"'">>
                               ELSE Str(value.v[i])], <<",", " ">>) \o <<"]">>

EndsWith(s, suffix) ==
    /\ Len(s) >= Len(suffix)
    /\ SubSeq(s, Len(s) - Len(suffix) + 1, Len(s)) = suffix

StartsWith(s, prefix) ==
    /\ Len(s) >= Len(prefix)
    /\ SubSeq(s, 1, Len(prefix)) = prefix

\* s.rstrip('/')
RECURSIVE RStripSlash(_)
RStripSlash(s) ==
    IF s # <<>> /\ s[Len(s)] = "/" THEN RStripSlash(SubSeq(s, 1, Len(s) - 1)) ELSE s

\* s.replace(old, ''): every occurrence of old, left to right.
RECURSIVE RemoveAll(_, _)
RemoveAll(s, old) ==
    IF s = <<>> THEN <<>>
    ELSE IF StartsWith(s, old) THEN RemoveAll(SubSeq(s, Len(old) + 1, Len(s)), old)
    ELSE <<Head(s)>> \o RemoveAll(Tail(s), old)

\* s.replace('\\', '\\\\')
RECURSIVE EscapeBackslashes(_)
EscapeBackslashes(s) ==
    IF s = <<>> THEN <<>>
    ELSE IF Head(s) = "\\" THEN <<"\\", "\\">> \o EscapeBackslashes(Tail(s))
    ELSE <<Head(s)>> \o EscapeBackslashes(Tail(s))

NoEscape(s) == s

\* What re.sub makes of a replacement template: an escaped backslash is one
\* backslash; a backslash before anything else is a bad escape (re.error).
RECURSIVE TemplateOk(_)
TemplateOk(s) ==
    IF s = <<>> THEN TRUE
    ELSE IF Head(s) # "\\" THEN TemplateOk(Tail(s))
    ELSE Len(s) >= 2 /\ s[2] = "\\" /\ TemplateOk(SubSeq(s, 3, Len(s)))

RECURSIVE ExpandTemplate(_)
ExpandTemplate(s) ==
    IF s = <<>> THEN <<>>
    ELSE IF Head(s) = "\\" THEN <<"\\">> \o ExpandTemplate(SubSeq(s, 3, Len(s)))
    ELSE <<Head(s)>> \o ExpandTemplate(Tail(s))


(***************************************************************************)
(* config.yaml as text: lines and value tokens                             *)
(*                                                                         *)
(* A line is its indentation and what follows it:                          *)
(*   sec      'key': {            sec_end   },                             *)
(*   lopen    'key': [            lclose    ],                             *)
(*   elem     'item',             elem_last 'item'                         *)
(*   kv       'key': token,       comment   # text        blank            *)
(* kq is the quote character around the key, tok the value token as        *)
(* written (quotes included), cmt a trailing comment ("" when absent).     *)
(* The braces enclosing the whole document are left out.                   *)
(***************************************************************************)

Line(indent, shape, key, kq, tok, cmt) ==
    [indent |-> indent, shape |-> shape, key |-> key, kq |-> kq, tok |-> tok, cmt |-> cmt]

SecLine(key) == Line(4, "sec", key, "'", <<>>, "")
SecEndLine == Line(4, "sec_end", "", "", <<>>, "")
KvLine(key, tok) == Line(8, "kv", key, "'", tok, "")
CommentLine(indent, text) == Line(indent, "comment", "", "", <<>>, text)
BlankLine == Line(0, "blank", "", "", <<>>, "")

SQ(atoms) == <<"'">> \o atoms \o <<"'">>
DQ(atoms) == <<"\"">> \o atoms \o <<"\"">>

\* [0-9\.]+|true|false|null|'.*?'|".*?" up to the line's final comma.
ValueTokenMatch(tok) ==
    \/ tok # <<>> /\ \A i \in 1..Len(tok) : tok[i] \in DigitSet \cup {"."}
    \/ tok \in {<<"true">>, <<"false">>, <<"null">>}
    \/ Len(tok) >= 2 /\ tok[1] = "'" /\ tok[Len(tok)] = "'"
    \/ Len(tok) >= 2 /\ tok[1] = "\"" /\ tok[Len(tok)] = "\""

\* ^ {4}(?P<key>'.*?'|".*?"): \{$
parent_key_match(current_line) ==
    current_line.indent = 4 /\ current_line.shape = "sec" /\ current_line.cmt = ""

\* ^ {8}(?P<key>'.*?'|".*?"): \[\s*(#.*)?$
list_start_match(current_line) ==
    current_line.indent = 8 /\ current_line.shape = "lopen"

\* ^ {8}\],\s*(#.*)?$
list_end_match(current_line) ==
    current_line.indent = 8 /\ current_line.shape = "lclose"

\* ^ {8}(?P<key>'.*?'|".*?"): (?P<value>...),$
key_value_match(current_line) ==
    /\ current_line.indent = 8
    /\ current_line.shape = "kv"
    /\ current_line.cmt = ""
    /\ ValueTokenMatch(current_line.tok)

Recognized(l) ==
    parent_key_match(l) \/ list_start_match(l) \/ list_end_match(l) \/ key_value_match(l)

(***************************************************************************)
(* The structural parse of the file (ruamel.yaml), comments ignored        *)
(***************************************************************************)

ParseError == [t |-> "ParseError"]

\* The text of a single-quoted scalar: '' is a quote, a lone ' ends it.
Unquoted(ok, text) == [ok |-> ok, text |-> text]

RECURSIVE UnquoteSingle(_)
UnquoteSingle(body) ==
    IF body = <<>> THEN Unquoted(TRUE, <<>>)
    ELSE IF Head(body) # "'" THEN
        LET rest == UnquoteSingle(Tail(body)) IN
        Unquoted(rest.ok, <<Head(body)>> \o rest.text)
    ELSE IF Len(body) >= 2 /\ body[2] = "'" THEN
        LET rest == UnquoteSingle(SubSeq(body, 3, Len(body))) IN
        Unquoted(rest.ok, <<"'">> \o rest.text)
    ELSE Unquoted(FALSE, <<>>)

\* The text of a double-quoted scalar: \\ and \" are escapes, a lone " ends it.
RECURSIVE UnquoteDouble(_)
UnquoteDouble(body) ==
    IF body = <<>> THEN Unquoted(TRUE, <<>>)
    ELSE IF Head(body) = "\"" THEN Unquoted(FALSE, <<>>)
    ELSE IF Head(body) = "\\" THEN
        IF Len(body) >= 2 /\ body[2] \in {"\\", "\""}
        THEN LET rest == UnquoteDouble(SubSeq(body, 3, Len(body))) IN
             Unquoted(rest.ok, <<body[2]>> \o rest.text)
        ELSE Unquoted(FALSE, <<>>)
    ELSE LET rest == UnquoteDouble(Tail(body)) IN
         Unquoted(rest.ok, <<Head(body)>> \o rest.text)

AllDigits(atoms) == atoms # <<>> /\ \A i \in 1..Len(atoms) : atoms[i] \in DigitSet

\* The value a token stands for.
ParseToken(tok) ==
    IF tok = <<>> THEN ParseError
    ELSE IF tok = <<"true">> THEN PyBool(TRUE)
    ELSE IF tok = <<"false">> THEN PyBool(FALSE)
    ELSE IF tok = <<"null">> THEN None
    ELSE IF AllDigits(tok) THEN PyInt(AtomsToInt(tok))
    ELSE IF /\ Len(tok) >= 3
            /\ tok[Len(tok) - 1] = "."
            /\ AllDigits(SubSeq(tok, 1, Len(tok) - 2))
            /\ tok[Len(tok)] \in DigitSet
    THEN PyFloat(AtomsToInt(SubSeq(tok, 1, Len(tok) - 2)) * 10 + DigitValue(tok[Len(tok)]))
    ELSE IF tok[1] = "'" THEN
        IF Len(tok) < 2 \/ tok[Len(tok)] # "'" THEN ParseError
        ELSE LET u == UnquoteSingle(SubSeq(tok, 2, Len(tok) - 1)) IN
             IF u.ok THEN PyStr(u.text) ELSE ParseError
    ELSE IF tok[1] = "\"" THEN
        IF Len(tok) < 2 \/ tok[Len(tok)] # "\"" THEN ParseError
        ELSE LET u == UnquoteDouble(SubSeq(tok, 2, Len(tok) - 1)) IN
             IF u.ok THEN PyStr(u.text) ELSE ParseError
    ELSE PyStr(tok)

EmptyMap == [k \in {} |-> None]
Put(f, k, v) == (k :> v) @@ f

\* The parser's context between two lines: doc the mapping read so far
\* (section -> field -> value), cur the open section ("" outside), lst
\* the open list's key ("" outside), items the open list's elements, more
\* whether a further element may come, ok whether the text is valid so far.
Parse(doc, cur, lst, items, more, ok) ==
    [doc |-> doc, cur |-> cur, lst |-> lst, items |-> items, more |-> more, ok |-> ok]

ParseFailed == Parse(EmptyMap, "", "", <<>>, TRUE, FALSE)

\* One more line read.
ParseLine(p, l) ==
    LET doc == p.doc
        cur == p.cur
        lst == p.lst
        items == p.items
        more == p.more
    IN  CASE l.shape \in {"comment", "blank"} -> p
          [] l.shape = "sec" ->
                IF cur # "" \/ l.key \in DOMAIN doc THEN ParseFailed
                ELSE Parse(Put(doc, l.key, EmptyMap), l.key, "", <<>>, TRUE, TRUE)
          [] l.shape = "sec_end" ->
                IF cur = "" \/ lst # "" THEN ParseFailed
                ELSE Parse(doc, "", "", <<>>, TRUE, TRUE)
          [] l.shape = "kv" ->
                IF cur = "" \/ lst # "" \/ l.key \in DOMAIN doc[cur]
                   \/ ParseToken(l.tok) = ParseError
                THEN ParseFailed
                ELSE Parse(Put(doc, cur, Put(doc[cur], l.key, ParseToken(l.tok))),
                           cur, "", <<>>, TRUE, TRUE)
          [] l.shape = "lopen" ->
                IF cur = "" \/ lst # "" \/ l.key \in DOMAIN doc[cur] THEN ParseFailed
                ELSE Parse(doc, cur, l.key, <<>>, TRUE, TRUE)
          [] l.shape \in {"elem", "elem_last"} ->
                IF lst = "" \/ ~more \/ ParseToken(l.tok) = ParseError THEN ParseFailed
                ELSE Parse(doc, cur, lst, Append(items, ParseToken(l.tok)),
                           l.shape = "elem", TRUE)
          [] l.shape = "lclose" ->
                IF lst = "" THEN ParseFailed
                ELSE Parse(Put(doc, cur, Put(doc[cur], lst, PyList(items))),
                           cur, "", <<>>, TRUE, TRUE)
          [] OTHER -> ParseFailed

\* Lines lo..hi read from the context p: the first half, then the second.
RECURSIVE ParseLines(_, _, _, _)
ParseLines(p, lines, lo, hi) ==
    IF ~p.ok \/ lo > hi THEN p
    ELSE IF lo = hi THEN ParseLine(p, lines[lo])
    ELSE ParseLines(ParseLines(p, lines, lo, (lo + hi) \div 2),
                    lines, (lo + hi) \div 2 + 1, hi)

HasContent(lines) == \E i \in 1..Len(lines) : lines[i].shape \notin {"comment", "blank"}

\* ruamel.yaml.YAML().load(file): None for a file with no content.
YamlLoad(lines) ==
    IF ~HasContent(lines) THEN None
    ELSE LET p == ParseLines(Parse(EmptyMap, "", "", <<>>, TRUE, TRUE), lines, 1, Len(lines)) IN
         IF p.ok /\ p.cur = "" THEN p.doc ELSE ParseError


(***************************************************************************)
(* SaveConfig                                                              *)
(***************************************************************************)

_DOCKER_PATH_PREFIX == <<"/", "host-rootfs">>

Has(config_dict, section, key) ==
    section \in DOMAIN config_dict /\ key \in DOMAIN config_dict[section]

\* SaveConfig's outcome: the exception it raised ("" when it returned) and
\* the lines it wrote.
Saved(new_lines) == [raised |-> "", lines |-> new_lines]
SaveRaised(exception) == [raised |-> exception, lines |-> <<>>]

\* config.dict() builds new dicts: what SaveConfig rewrites in config_dict
\* leaves the document it was given as it was.
DocumentAfterSaveAliased(config, config_dict) == config_dict

DocumentAfterSave(config, config_dict) == config

\* The prefix is taken off the path fields of the dict made from the
\* document (a no-op outside Docker).
UnprefixUploadFolder(config_dict) ==
    Put(config_dict, "capture",
        Put(config_dict["capture"], "upload_folder",
            PyStr(RemoveAll(Str(config_dict["capture"]["upload_folder"]),
                            _DOCKER_PATH_PREFIX))))

UnprefixTsPath(config_dict) ==
    IF config_dict["tv"]["debug_mode_ts_path"].t = "str"
    THEN Put(config_dict, "tv",
             Put(config_dict["tv"], "debug_mode_ts_path",
                 PyStr(RemoveAll(config_dict["tv"]["debug_mode_ts_path"].v,
                                 _DOCKER_PATH_PREFIX))))
    ELSE config_dict

\* value_real before the backslash escape: the type-directed rendering.
RenderScalar(value) ==
    IF value.t \in {"int", "float"}
    THEN LET value_real == Str(value) IN
         IF EndsWith(value_real, <<".", "0">>)
         THEN SubSeq(value_real, 1, Len(value_real) - 2)
         ELSE value_real
    ELSE IF value = PyBool(TRUE) THEN <<"true">>
    ELSE IF value = PyBool(FALSE) THEN <<"false">>
    ELSE IF value = None THEN <<"null">>
    ELSE SQ(Str(value))

\* value_real as put into the replacement template.
ValueReal(value) == EscapeBackslashes(RenderScalar(value))

\* The items a for-loop over a value yields; NotIterable raises TypeError.
Iterable(value) == value.t \in {"list", "str"}
ItemsOf(value) ==
    IF value.t = "list" THEN value.v
    ELSE [i \in 1..Len(value.v) |-> PyStr(<<value.v[i]>>)]

\* The lines of f"    '{list_key}': [\n{new_list}\n    ],\n".
ListBlock(list_key, items) ==
    <<Line(4, "lopen", list_key, "'", <<>>, "")>>
    \o (IF items = <<>> THEN <<BlankLine>>
        ELSE [i \in 1..Len(items) |->
                Line(8, IF i < Len(items) THEN "elem" ELSE "elem_last", "", "",
                     SQ(Str(items[i])), "")])
    \o <<Line(4, "lclose", "", "", <<>>, "")>>

\* new_lines.append(current_line) for a list whose key the dict lacks.
ListBlockKept(current_line) == <<current_line>>

\* The loop over current_lines keeps current_parent_key, in_list and
\* new_lines from one line to the next; raised is the exception that ended
\* it ("" while it runs).
Scan(current_parent_key, in_list, new_lines, raised) ==
    [current_parent_key |-> current_parent_key, in_list |-> in_list,
     new_lines |-> new_lines, raised |-> raised]

\* The body of the loop, for one current_line.
ScanLine(scan, current_line, config_dict) ==
    LET key == current_line.key
        current_parent_key == scan.current_parent_key
        in_list == scan.in_list
        new_lines == scan.new_lines
    IN  IF parent_key_match(current_line)
        THEN Scan(key, in_list, Append(new_lines, current_line), "")
        ELSE IF list_start_match(current_line)
        THEN IF current_parent_key \notin DOMAIN config_dict
             THEN Scan(current_parent_key, TRUE, new_lines, "KeyError")
             ELSE IF key \in DOMAIN config_dict[current_parent_key]
             THEN IF ~Iterable(config_dict[current_parent_key][key])
                  THEN Scan(current_parent_key, TRUE, new_lines, "TypeError")
                  ELSE Scan(current_parent_key, TRUE,
                            new_lines \o ListBlock(key,
                                ItemsOf(config_dict[current_parent_key][key])), "")
             ELSE Scan(current_parent_key, TRUE,
                       new_lines \o ListBlockKept(current_line), "")
        ELSE IF list_end_match(current_line)
        THEN Scan(current_parent_key, FALSE, new_lines, "")
        ELSE IF in_list
        THEN scan
        ELSE IF key_value_match(current_line)
        THEN IF current_parent_key \notin DOMAIN config_dict
             THEN Scan(current_parent_key, in_list, new_lines, "KeyError")
             ELSE IF key \in DOMAIN config_dict[current_parent_key]
             THEN LET value_real == ValueReal(config_dict[current_parent_key][key]) IN
                  IF ~TemplateOk(value_real)
                  THEN Scan(current_parent_key, in_list, new_lines, "re.error")
                  ELSE Scan(current_parent_key, in_list,
                            Append(new_lines,
                                   [current_line EXCEPT !.tok = ExpandTemplate(value_real)]),
                            "")
             ELSE Scan(current_parent_key, in_list, Append(new_lines, current_line), "")
        ELSE Scan(current_parent_key, in_list, Append(new_lines, current_line), "")

\* for current_line in current_lines: the loop over lines lo..hi, from the
\* context scan; it runs its first half, then its second half.
RECURSIVE ScanLines(_, _, _, _, _)
ScanLines(scan, current_lines, lo, hi, config_dict) ==
    IF scan.raised # "" \/ lo > hi THEN scan
    ELSE IF lo = hi THEN ScanLine(scan, current_lines[lo], config_dict)
    ELSE ScanLines(ScanLines(scan, current_lines, lo, (lo + hi) \div 2, config_dict),
                   current_lines, (lo + hi) \div 2 + 1, hi, config_dict)

\* The dict SaveConfig patches from: config.dict(), un-prefixed in Docker.
\* Raises KeyError when a path field is absent from the document.
SaveDict(config, is_docker) ==
    IF ~is_docker THEN config
    ELSE UnprefixTsPath(UnprefixUploadFolder(config))

SaveDictRaises(config, is_docker) ==
    is_docker /\ (~Has(config, "capture", "upload_folder")
                  \/ ~Has(config, "tv", "debug_mode_ts_path"))

\* SaveConfig(config) on the file as it is on disk.
SaveConfigRun(config, disk, is_docker) ==
    IF SaveDictRaises(config, is_docker) THEN SaveRaised("KeyError")
    ELSE IF disk = Missing THEN SaveRaised("FileNotFoundError")
    ELSE LET scan == ScanLines(Scan("", FALSE, <<>>, ""), disk.lines, 1, Len(disk.lines),
                               SaveDict(config, is_docker)) IN
         IF scan.raised # "" THEN SaveRaised(scan.raised) ELSE Saved(scan.new_lines)


(***************************************************************************)
(* validate_port (_ServerSettingsServer)                                   *)
(***************************************************************************)

PortMin == 1024
PortMax == 65525
CompanionOffset == 10

\* Bounds of the socket / process environment.
MaxPid == 3
MaxConns == 2

ProcIds == 1..MaxPid

\* Process tables: ppid[p] is p's parent, 0 a parent outside the table.
\* Parents are numbered below their children (a process forest).
ProcTables == { t \in [ProcIds -> 0..MaxPid] : \A p \in ProcIds : t[p] < p }

\* The ports a configuration may name, the boundary cases included.
PortCandidates == {1023, 1024, 7000, 65525, 65526}

ConnStatuses == {"LISTEN", "ESTABLISHED"}

\* Local ports of sockets relative to the candidate port space.
SocketPorts == {7000, 7010, 65535}

Conns == [status : ConnStatuses, pid : ProcIds \cup {NoPid}, lport : SocketPorts]

\* The owner is the current process, its parent, a child or a sibling.
IsRelative(pid, me, ppid) ==
    \/ pid = me
    \/ pid = ppid[me]
    \/ ppid[pid] = me
    \/ ppid[pid] = ppid[me]

IsRelativeNoSibling(pid, me, ppid) ==
    \/ pid = me
    \/ pid = ppid[me]
    \/ ppid[pid] = me

\* used_ports: local ports of listening sockets of foreign, known owners.
UsedPorts(conns, me, ppid) ==
    { c.lport : c \in { d \in conns : /\ d.status = "LISTEN"
                                      /\ d.pid # NoPid
                                      /\ ~IsRelative(d.pid, me, ppid) } }

validate_port_norange(port, conns, me, ppid) ==
    LET used_ports == UsedPorts(conns, me, ppid) IN
    IF port < PortMin \/ port > PortMax + CompanionOffset
    THEN [ok |-> FALSE, msg |-> "port-range", named |-> NoPort]
    ELSE IF port \in used_ports
    THEN [ok |-> FALSE, msg |-> "port-in-use", named |-> port]
    ELSE IF (port + CompanionOffset) \in used_ports
    THEN [ok |-> FALSE, msg |-> "port-in-use", named |-> port + CompanionOffset]
    ELSE [ok |-> TRUE, msg |-> "ok", named |-> NoPort]

validate_port_nosibling(port, conns, me, ppid) ==
    LET used_ports == { c.lport : c \in { d \in conns :
                            /\ d.status = "LISTEN"
                            /\ d.pid # NoPid
                            /\ ~IsRelativeNoSibling(d.pid, me, ppid) } } IN
    IF port < PortMin \/ port > PortMax
    THEN [ok |-> FALSE, msg |-> "port-range", named |-> NoPort]
    ELSE IF port \in used_ports
    THEN [ok |-> FALSE, msg |-> "port-in-use", named |-> port]
    ELSE IF (port + CompanionOffset) \in used_ports
    THEN [ok |-> FALSE, msg |-> "port-in-use", named |-> port + CompanionOffset]
    ELSE [ok |-> TRUE, msg |-> "ok", named |-> NoPort]

\* The validator: range check, socket scan, the two conflict checks in order.
validate_port(port, conns, me, ppid) ==
    LET used_ports == UsedPorts(conns, me, ppid) IN
    IF port < PortMin \/ port > PortMax
    THEN [ok |-> FALSE, msg |-> "port-range", named |-> NoPort]
    ELSE IF port \in used_ports
    THEN [ok |-> FALSE, msg |-> "port-in-use", named |-> port]
    ELSE IF (port + CompanionOffset) \in used_ports
    THEN [ok |-> FALSE, msg |-> "port-in-use", named |-> port + CompanionOffset]
    ELSE [ok |-> TRUE, msg |-> "ok", named |-> NoPort]

(***************************************************************************)
(* validate_encoder (_ServerSettingsGeneral)                               *)
(***************************************************************************)

Encoders == {"FFmpeg", "QSVEncC", "NVEncC", "VCEEncC", "rkmppenc"}

\* Values platform.machine() returns.
Archs == {"AMD64", "x86_64", "aarch64", "arm64", "armv7l"}

\* Longest --check-hw output considered, in lines.
MaxOutLines == 2

\* What a line of the encoder's --check-hw output may contain.
Markers == {"reader:", "unavailable.", "H.265/HEVC"}

RECURSIVE SeqsUpTo(_, _)
SeqsUpTo(S, n) ==
    IF n = 0 THEN {<<>>}
    ELSE LET shorter == SeqsUpTo(S, n - 1) IN
         shorter \cup { Append(q, x) : q \in { r \in shorter : Len(r) = n - 1 }, x \in S }

HwOutputs == SeqsUpTo(SUBSET Markers, MaxOutLines)

\* The lines kept by the 'reader:' filter.
RECURSIVE DropReaderLines(_)
DropReaderLines(lines) ==
    IF lines = <<>> THEN <<>>
    ELSE IF "reader:" \in Head(lines) THEN DropReaderLines(Tail(lines))
    ELSE <<Head(lines)>> \o DropReaderLines(Tail(lines))

Contains(lines, marker) == \E i \in 1..Len(lines) : marker \in lines[i]

LogMsg(level, msg) == [level |-> level, msg |-> msg]

\* A validator's result: ok or a ValueError, the subprocesses it ran (in
\* order), the network calls it issued and the messages it logged.
VResult(ok, msg, procs, logs) ==
    [ok |-> ok, msg |-> msg, procs |-> procs, net |-> <<>>, logs |-> logs]

EncoderVersion(encoder, procs, logs) ==
    VResult(TRUE, "ok", procs \o <<[bin |-> encoder, flag |-> "--version"]>>,
            logs \o <<LogMsg("info", "Encoder")>>)

EncoderCheckHw(encoder, check_hw_stdout) ==
    LET procs == <<[bin |-> encoder, flag |-> "--check-hw"]>>
        result_stdout == DropReaderLines(check_hw_stdout)
    IN  IF Contains(result_stdout, "unavailable.")
        THEN VResult(FALSE, "encoder-unsupported", procs, <<>>)
        ELSE EncoderVersion(encoder, procs,
                 IF ~Contains(result_stdout, "H.265/HEVC")
                 THEN <<LogMsg("warning", "no-hevc")>> ELSE <<>>)

\* A variant that probes the hardware before looking at the architecture.
validate_encoder_probe_first(encoder, current_arch, check_hw_stdout) ==
    LET probed == IF encoder # "FFmpeg"
                  THEN EncoderCheckHw(encoder, check_hw_stdout)
                  ELSE EncoderVersion(encoder, <<>>, <<>>)
    IN  IF current_arch \in {"AMD64", "x86_64"} /\ encoder = "rkmppenc"
        THEN [probed EXCEPT !.ok = FALSE, !.msg = "x64-rkmppenc"]
        ELSE IF current_arch = "aarch64" /\ encoder \in {"QSVEncC", "NVEncC", "VCEEncC"}
        THEN [probed EXCEPT !.ok = FALSE, !.msg = "arm64-hwencc"]
        ELSE probed

validate_encoder(encoder, current_arch, check_hw_stdout) ==
    IF current_arch \in {"AMD64", "x86_64"} /\ encoder = "rkmppenc"
    THEN VResult(FALSE, "x64-rkmppenc", <<>>, <<>>)
    ELSE IF current_arch = "aarch64" /\ encoder \in {"QSVEncC", "NVEncC", "VCEEncC"}
    THEN VResult(FALSE, "arm64-hwencc", <<>>, <<>>)
    ELSE IF encoder # "FFmpeg"
    THEN EncoderCheckHw(encoder, check_hw_stdout)
    ELSE EncoderVersion(encoder, <<>>, <<>>)

(***************************************************************************)
(* validate_edcb_url, validate_mirakurun_url (_ServerSettingsGeneral)      *)
(***************************************************************************)

\* A URL is <<scheme, host, ":", port, ...>>, the port part optional.
IsSep(a) == a \in {":", "/"}

\* EDCBUtil.getEDCBHost / getEDCBPort: the URL's host and port, None if absent.
getEDCBHost(edcb_url) ==
    IF Len(edcb_url) >= 2 /\ ~IsSep(edcb_url[2]) THEN PyStr(<<edcb_url[2]>>) ELSE None

getEDCBPort(edcb_url) ==
    IF Len(edcb_url) >= 4 /\ edcb_url[3] = ":" /\ ~IsSep(edcb_url[4])
    THEN PyStr(<<edcb_url[4]>>) ELSE None

NetResult(ok, msg, net, logs) ==
    [ok |-> ok, msg |-> msg, procs |-> <<>>, net |-> net, logs |-> logs]

\* validate_edcb_url with the service enumeration issued before the host
\* and port of the URL are looked at.
validate_edcb_url_probe_first(edcb_url, backend, enum_service) ==
    IF backend = PyStr(<<"EDCB">>)
    THEN LET edcb_host == getEDCBHost(edcb_url)
             edcb_port == getEDCBPort(edcb_url)
         IN  IF enum_service = None
             THEN NetResult(FALSE, "edcb-unreachable", <<"sendEnumService">>, <<>>)
             ELSE IF edcb_host = None
                \/ (edcb_port = None /\ edcb_host # PyStr(<<"edcb-namedpipe">>))
             THEN NetResult(FALSE, "edcb-no-host-or-port", <<"sendEnumService">>, <<>>)
             ELSE NetResult(TRUE, "ok", <<"sendEnumService">>,
                            <<LogMsg("info", "Backend: EDCB")>>)
    ELSE NetResult(TRUE, "ok", <<>>, <<>>)

\* enum_service is what sendEnumService() gives: None when unreachable.
validate_edcb_url(edcb_url, backend, enum_service) ==
    IF backend = PyStr(<<"EDCB">>)
    THEN LET edcb_host == getEDCBHost(edcb_url)
             edcb_port == getEDCBPort(edcb_url)
         IN  IF edcb_host = None
                \/ (edcb_port = None /\ edcb_host # PyStr(<<"edcb-namedpipe">>))
             THEN NetResult(FALSE, "edcb-no-host-or-port", <<>>, <<>>)
             ELSE IF enum_service = None
             THEN NetResult(FALSE, "edcb-unreachable", <<"sendEnumService">>, <<>>)
             ELSE NetResult(TRUE, "ok", <<"sendEnumService">>,
                            <<LogMsg("info", "Backend: EDCB")>>)
    ELSE NetResult(TRUE, "ok", <<>>, <<>>)

\* validate_mirakurun_url with the probe issued whatever the backend is.
validate_mirakurun_url_any_backend(mirakurun_url, backend, response) ==
    IF response = "error"
    THEN NetResult(FALSE, "mirakurun-unreachable", <<"GET /api/version">>, <<>>)
    ELSE IF response # "version"
    THEN NetResult(FALSE, "not-mirakurun", <<"GET /api/version">>, <<>>)
    ELSE NetResult(TRUE, "ok", <<"GET /api/version">>,
                   <<LogMsg("info", "Backend: Mirakurun")>>)

\* response is what GET {mirakurun_url}/api/version gives: "version" (200
\* with a current version), "error" (connection error or timeout), "other".
validate_mirakurun_url(mirakurun_url, backend, response) ==
    IF backend = PyStr(<<"Mirakurun">>)
    THEN IF response = "error"
         THEN NetResult(FALSE, "mirakurun-unreachable", <<"GET /api/version">>, <<>>)
         ELSE IF response # "version"
         THEN NetResult(FALSE, "not-mirakurun", <<"GET /api/version">>, <<>>)
         ELSE NetResult(TRUE, "ok", <<"GET /api/version">>,
                        <<LogMsg("info", "Backend: Mirakurun")>>)
    ELSE NetResult(TRUE, "ok", <<>>, <<>>)

(***************************************************************************)
(* The ServerSettings schema (pydantic)                                    *)
(***************************************************************************)

SectionNames == <<"general", "server", "tv", "capture", "twitter">>

FieldNames ==
    [general |-> <<"backend", "edcb_url", "mirakurun_url", "encoder",
                   "program_update_interval", "debug", "debug_encoder">>,
     server  |-> <<"port", "custom_https_certificate", "custom_https_private_key">>,
     tv      |-> <<"max_alive_time", "debug_mode_ts_path">>,
     capture |-> <<"upload_folder">>,
     twitter |-> <<"consumer_key", "consumer_secret">>]

\* The fields typed "... | None": not required, None by default.
OptionalFields ==
    [general |-> {},
     server  |-> {"custom_https_certificate", "custom_https_private_key"},
     tv      |-> {"debug_mode_ts_path"},
     capture |-> {},
     twitter |-> {"consumer_key", "consumer_secret"}]

Range(q) == { q[i] : i \in 1..Len(q) }

\* The value of a key the mapping lacks.
Absent == [t |-> "absent"]
Get(raw, k) == IF k \in DOMAIN raw THEN raw[k] ELSE Absent

\* An entry of ValidationError.errors(); domain: its message contains the
\* full stop of the validators' own messages, which are two lines long.
Err(msg, domain) == [msg |-> msg, domain |-> domain]

\* A field's validation: the validated value or the error, and what the
\* field's validator ran and logged.
Checked(ok, value, msg) ==
    [ok |-> ok, value |-> value,
     errs |-> IF ok THEN <<>> ELSE <<Err(msg, FALSE)>>,
     procs |-> <<>>, net |-> <<>>, logs |-> <<>>]

Required(v, checked) == IF v = Absent THEN Checked(FALSE, v, "field required") ELSE checked

\* The outcome of a custom validator on a value whose type check passed.
Validated(value, vres) ==
    [ok |-> vres.ok, value |-> value,
     errs |-> IF vres.ok THEN <<>> ELSE <<Err(vres.msg, TRUE)>>,
     procs |-> vres.procs, net |-> vres.net, logs |-> vres.logs]

AsLiteral(v, allowed) ==
    Required(v, IF v.t = "str" /\ v.v \in allowed
                THEN Checked(TRUE, v, "ok")
                ELSE Checked(FALSE, v, "unexpected value"))

AsUrl(v, schemes) ==
    Required(v, IF v.t = "str" /\ Len(v.v) >= 2 /\ v.v[1] \in schemes /\ ~IsSep(v.v[2])
                THEN Checked(TRUE, v, "ok")
                ELSE Checked(FALSE, v, "invalid url"))

\* confloat(ge=0.1)
AsFloatGe(v) ==
    Required(v,
        IF v.t \notin {"int", "float"} THEN Checked(FALSE, v, "value is not a valid float")
        ELSE LET f == IF v.t = "int" THEN PyFloat(v.v * 10) ELSE v IN
             IF f.v >= 1 THEN Checked(TRUE, f, "ok")
             ELSE Checked(FALSE, v, "ensure this value is greater than or equal to 0.1"))

AsBool(v) ==
    Required(v,
        IF v.t = "bool" THEN Checked(TRUE, v, "ok")
        ELSE IF v.t = "int" /\ v.v \in {0, 1} THEN Checked(TRUE, PyBool(v.v = 1), "ok")
        ELSE Checked(FALSE, v, "value could not be parsed to a boolean"))

AsPositiveInt(v) ==
    Required(v,
        LET n == CASE v.t = "int" -> v
                   [] v.t = "bool" -> PyInt(IF v.v THEN 1 ELSE 0)
                   [] v.t = "float" -> PyInt(v.v \div 10)
                   [] v.t = "str" /\ AllDigits(v.v) -> PyInt(AtomsToInt(v.v))
                   [] OTHER -> Absent
        IN  IF n = Absent THEN Checked(FALSE, v, "value is not a valid integer")
            ELSE IF n.v > 0 THEN Checked(TRUE, n, "ok")
            ELSE Checked(FALSE, v, "ensure this value is greater than 0"))

\* FilePath | None, DirectoryPath: a path that exists on the file system.
AsOptPath(v, existing) ==
    IF v \in {Absent, None} THEN Checked(TRUE, None, "ok")
    ELSE IF v.t \notin {"str", "Path"} THEN Checked(FALSE, v, "value is not a valid path")
    ELSE IF v.v \in existing THEN Checked(TRUE, PyPath(v.v), "ok")
    ELSE Checked(FALSE, v, "path does not exist")

AsPath(v, existing) ==
    Required(v, IF v = None THEN Checked(FALSE, v, "none is not an allowed value")
                ELSE AsOptPath(v, existing))

\* str | None
AsOptStr(v) ==
    IF v \in {Absent, None} THEN Checked(TRUE, None, "ok")
    ELSE IF v.t = "str" THEN Checked(TRUE, v, "ok")
    ELSE IF v.t \in {"int", "float", "bool"} THEN Checked(TRUE, PyStr(Str(v)), "ok")
    ELSE Checked(FALSE, v, "str type expected")

\* A section's validation from its fields' (in declaration order): the
\* validated fields, every error, and the validators' effects in order.
NoResults ==
    [ok |-> TRUE, value |-> EmptyMap, errs |-> <<>>, procs |-> <<>>, net |-> <<>>,
     logs |-> <<>>]

\* One field's (or one section's) result, as a result set of its own.
Single(name, r) ==
    [ok    |-> r.ok,
     value |-> IF r.ok THEN Put(EmptyMap, name, r.value) ELSE EmptyMap,
     errs  |-> r.errs,
     procs |-> r.procs,
     net   |-> r.net,
     logs  |-> r.logs]

\* Two result sets, the first one's fields coming first.
Both(a, b) ==
    [ok    |-> a.ok /\ b.ok,
     value |-> b.value @@ a.value,
     errs  |-> a.errs \o b.errs,
     procs |-> a.procs \o b.procs,
     net   |-> a.net \o b.net,
     logs  |-> a.logs \o b.logs]

\* The results of names[lo..hi], in the order of names.
RECURSIVE CollectRange(_, _, _, _)
CollectRange(names, results, lo, hi) ==
    IF lo > hi THEN NoResults
    ELSE IF lo = hi THEN Single(names[lo], results[names[lo]])
    ELSE Both(CollectRange(names, results, lo, (lo + hi) \div 2),
              CollectRange(names, results, (lo + hi) \div 2 + 1, hi))

Collect(names, results, acc) == Both(acc, CollectRange(names, results, 1, Len(names)))

\* values.get('backend'): the backend, if its own validation passed.
ValuesGet(checked) == IF checked.ok THEN checked.value ELSE None

GeneralModel(raw, env) ==
    LET backend == AsLiteral(Get(raw, "backend"), {<<"EDCB">>, <<"Mirakurun">>})
        edcb_t == AsUrl(Get(raw, "edcb_url"), {"tcp://"})
        mirakurun_t == AsUrl(Get(raw, "mirakurun_url"), {"http://", "https://"})
        encoder_t == AsLiteral(Get(raw, "encoder"), { <<e>> : e \in Encoders })
    IN  Collect(FieldNames.general,
            [backend |-> backend,
             edcb_url |->
                IF edcb_t.ok
                THEN Validated(edcb_t.value,
                         validate_edcb_url(edcb_t.value.v, ValuesGet(backend),
                                           env.enum_service))
                ELSE edcb_t,
             mirakurun_url |->
                IF mirakurun_t.ok
                THEN Validated(mirakurun_t.value,
                         validate_mirakurun_url(mirakurun_t.value.v, ValuesGet(backend),
                                                env.response))
                ELSE mirakurun_t,
             encoder |->
                IF encoder_t.ok
                THEN Validated(encoder_t.value,
                         validate_encoder(encoder_t.value.v[1], env.arch, env.stdout))
                ELSE encoder_t,
             program_update_interval |-> AsFloatGe(Get(raw, "program_update_interval")),
             debug |-> AsBool(Get(raw, "debug")),
             debug_encoder |-> AsBool(Get(raw, "debug_encoder"))],
            NoResults)

ServerModel(raw, env) ==
    LET port_t == AsPositiveInt(Get(raw, "port")) IN
    Collect(FieldNames.server,
        [port |->
            IF port_t.ok
            THEN LET v == validate_port(port_t.value.v, env.conns, env.me, env.ppid) IN
                 Validated(port_t.value,
                           [ok |-> v.ok, msg |-> v.msg, procs |-> <<>>, net |-> <<>>,
                            logs |-> <<>>])
            ELSE port_t,
         custom_https_certificate |->
            AsOptPath(Get(raw, "custom_https_certificate"), env.files),
         custom_https_private_key |->
            AsOptPath(Get(raw, "custom_https_private_key"), env.files)],
        NoResults)

TVModel(raw, env) ==
    Collect(FieldNames.tv,
        [max_alive_time |-> AsPositiveInt(Get(raw, "max_alive_time")),
         debug_mode_ts_path |-> AsOptPath(Get(raw, "debug_mode_ts_path"), env.files)],
        NoResults)

CaptureModel(raw, env) ==
    Collect(FieldNames.capture,
        [upload_folder |-> AsPath(Get(raw, "upload_folder"), env.dirs)],
        NoResults)

TwitterModel(raw, env) ==
    Collect(FieldNames.twitter,
        [consumer_key |-> AsOptStr(Get(raw, "consumer_key")),
         consumer_secret |-> AsOptStr(Get(raw, "consumer_secret"))],
        NoResults)

\* A section of ServerSettings: required, validated by its own model.
SectionModel(config_dict, section, env) ==
    IF section \notin DOMAIN config_dict
    THEN [NoResults EXCEPT !.ok = FALSE, !.errs = <<Err("field required", FALSE)>>]
    ELSE CASE section = "general" -> GeneralModel(config_dict[section], env)
           [] section = "server"  -> ServerModel(config_dict[section], env)
           [] section = "tv"      -> TVModel(config_dict[section], env)
           [] section = "capture" -> CaptureModel(config_dict[section], env)
           [] section = "twitter" -> TwitterModel(config_dict[section], env)

\* ServerSettings(**config_dict): every section is validated, the errors
\* of all of them are aggregated.
ServerSettings(config_dict, env) ==
    Collect(SectionNames,
            [section \in Range(SectionNames) |-> SectionModel(config_dict, section, env)],
            NoResults)

\* <Model>.construct(**values): the values as given, None for the optional
\* fields left out; nothing is validated.
Construct(section, values) ==
    [k \in DOMAIN values \cup OptionalFields[section] |->
        IF k \in DOMAIN values THEN values[k] ELSE None]

\* ServerSettings.unverified(config_dict); a missing section is a KeyError.
UnverifiedRaises(config_dict) == \E section \in Range(SectionNames) : section \notin DOMAIN config_dict

unverified(config_dict) ==
    [section \in Range(SectionNames) |-> Construct(section, config_dict[section])]


(***************************************************************************)
(* LoadConfig, Config, GetServerPort                                       *)
(***************************************************************************)

DefaultPort == 7000

\* The normalization block runs statement by statement on config_dict; a
\* KeyError ends the block (what was rewritten so far stays), any other
\* exception leaves LoadConfig.
Norm(dict, raised) == [dict |-> dict, raised |-> raised]

\* config_dict['general'][key] = config_dict['general'][key].rstrip('/')
NormRStrip(n, key) ==
    IF n.raised # "" THEN n
    ELSE IF ~Has(n.dict, "general", key) THEN Norm(n.dict, "KeyError")
    ELSE IF n.dict["general"][key].t # "str" THEN Norm(n.dict, "AttributeError")
    ELSE Norm(Put(n.dict, "general",
                  Put(n.dict["general"], key,
                      PyStr(RStripSlash(n.dict["general"][key].v)))), "")

\* config_dict['capture']['upload_folder'] = _DOCKER_PATH_PREFIX + ...
NormPrefixUploadFolder(n) ==
    IF n.raised # "" THEN n
    ELSE IF ~Has(n.dict, "capture", "upload_folder") THEN Norm(n.dict, "KeyError")
    ELSE IF n.dict["capture"]["upload_folder"].t # "str" THEN Norm(n.dict, "TypeError")
    ELSE Norm(Put(n.dict, "capture",
                  Put(n.dict["capture"], "upload_folder",
                      PyStr(_DOCKER_PATH_PREFIX \o n.dict["capture"]["upload_folder"].v))),
              "")

\* if type(config_dict['tv']['debug_mode_ts_path']) is str: prefix it
NormPrefixTsPath(n) ==
    IF n.raised # "" THEN n
    ELSE IF ~Has(n.dict, "tv", "debug_mode_ts_path") THEN Norm(n.dict, "KeyError")
    ELSE IF n.dict["tv"]["debug_mode_ts_path"].t # "str" THEN n
    ELSE Norm(Put(n.dict, "tv",
                  Put(n.dict["tv"], "debug_mode_ts_path",
                      PyStr(_DOCKER_PATH_PREFIX \o n.dict["tv"]["debug_mode_ts_path"].v))),
              "")

Normalize(config_dict, is_docker) ==
    LET urls == NormRStrip(NormRStrip(Norm(config_dict, ""), "edcb_url"), "mirakurun_url")
    IN  IF is_docker THEN NormPrefixTsPath(NormPrefixUploadFolder(urls)) ELSE urls

\* What a call did: how it ended (returned, or the exception raised), the
\* exit status of SystemExit, the value returned, _CONFIG afterwards, and
\* the log messages, subprocesses and network calls it made, in order.
Call(op, outcome, status, value, config, logs, procs, net) ==
    [op |-> op, outcome |-> outcome, status |-> status, value |-> value,
     config |-> config, logs |-> logs, procs |-> procs, net |-> net]

Exit(config, logs, procs, net) ==
    Call("LoadConfig", "SystemExit", 1, None, config, logs, procs, net)

Raise(op, exception, config) ==
    Call(op, exception, 0, None, config, <<>>, <<>>, <<>>)

\* The error handler of the strict branch.
RECURSIVE DomainLogs(_)
DomainLogs(errors) ==
    IF errors = <<>> THEN <<>>
    ELSE (IF Head(errors).domain
          THEN <<LogMsg("error", Head(errors).msg), LogMsg("error", Head(errors).msg)>>
          ELSE <<>>) \o DomainLogs(Tail(errors))

\* The handler without the exit that follows the domain messages.
ValidationErrorLogsAll(errors) ==
    DomainLogs(errors)
    \o <<LogMsg("error", "invalid settings"), LogMsg("error", "see the errors below"),
         LogMsg("error", "ValidationError")>>

ValidationErrorLogs(errors) ==
    LET custom_error == \E i \in 1..Len(errors) : errors[i].domain IN
    IF custom_error THEN DomainLogs(errors)
    ELSE <<LogMsg("error", "invalid settings"), LogMsg("error", "see the errors below"),
           LogMsg("error", "ValidationError")>>

MissingFileLogs ==
    <<LogMsg("error", "no settings file"), LogMsg("error", "copy config.example.yaml")>>
EmptyFileLogs ==
    <<LogMsg("error", "settings file is empty"), LogMsg("error", "copy config.example.yaml")>>
LoadErrorLogs ==
    <<LogMsg("error", "error while loading"), LogMsg("error", "exception")>>

\* The strict branch with the assignment made before the validation.
LoadStrictAssignFirst(config_dict, env) ==
    LET v == ServerSettings(config_dict, env) IN
    IF v.ok
    THEN Call("LoadConfig", "returned", 0, v.value, v.value,
              v.logs \o <<LogMsg("debug", "Server settings loaded.")>>, v.procs, v.net)
    ELSE Exit(config_dict, v.logs \o ValidationErrorLogs(v.errs), v.procs, v.net)

\* The strict branch: _CONFIG = ServerSettings(**config_dict), or the
\* ValidationError handler.
LoadStrict(config_dict, env) ==
    LET v == ServerSettings(config_dict, env) IN
    IF v.ok
    THEN Call("LoadConfig", "returned", 0, v.value, v.value,
              v.logs \o <<LogMsg("debug", "Server settings loaded.")>>, v.procs, v.net)
    ELSE Exit(None, v.logs \o ValidationErrorLogs(v.errs), v.procs, v.net)

\* The unchecked branch with the port's range check run all the same.
LoadUnverifiedChecked(config_dict) ==
    IF UnverifiedRaises(config_dict) THEN Raise("LoadConfig", "KeyError", None)
    ELSE IF \/ ~Has(config_dict, "server", "port")
            \/ config_dict["server"]["port"].t # "int"
            \/ config_dict["server"]["port"].v < PortMin
    THEN Exit(None, ValidationErrorLogs(<<Err("port-range", TRUE)>>), <<>>, <<>>)
    ELSE Call("LoadConfig", "returned", 0, unverified(config_dict), unverified(config_dict),
              <<LogMsg("debug", "Server settings loaded (bypassed validation).")>>,
              <<>>, <<>>)

\* The unchecked branch: _CONFIG = ServerSettings.unverified(config_dict).
LoadUnverified(config_dict) ==
    IF UnverifiedRaises(config_dict) THEN Raise("LoadConfig", "KeyError", None)
    ELSE Call("LoadConfig", "returned", 0, unverified(config_dict), unverified(config_dict),
              <<LogMsg("debug", "Server settings loaded (bypassed validation).")>>,
              <<>>, <<>>)

\* LoadConfig(bypass_validation) with the module global at config, the
\* file as it is on disk, and the environment the validators meet.
LoadConfigRun(config, disk, bypass_validation, is_docker, env) ==
    IF config # None THEN Raise("LoadConfig", "AssertionError", config)
    ELSE IF disk = Missing THEN Exit(None, MissingFileLogs, <<>>, <<>>)
    ELSE
    LET config_raw == YamlLoad(disk.lines) IN
    IF config_raw = None THEN Exit(None, EmptyFileLogs, <<>>, <<>>)
    ELSE IF config_raw = ParseError THEN Exit(None, LoadErrorLogs, <<>>, <<>>)
    ELSE
    LET n == Normalize(config_raw, is_docker) IN
    IF n.raised \notin {"", "KeyError"} THEN Raise("LoadConfig", n.raised, None)
    ELSE IF ~bypass_validation THEN LoadStrict(n.dict, env)
    ELSE LoadUnverified(n.dict)

\* Config(): the global, or the assertion.
ConfigRun(config) ==
    IF config = None THEN Raise("Config", "AssertionError", config)
    ELSE Call("Config", "returned", 0, config, config, <<>>, <<>>, <<>>)

\* GetServerPort(): server.port of the file as parsed now, 7000 on any error.
GetServerPortRun(config, disk) ==
    LET config_raw == IF disk = Missing THEN ParseError ELSE YamlLoad(disk.lines) IN
    IF config_raw \in {ParseError, None} \/ ~Has(config_raw, "server", "port")
    THEN Call("GetServerPort", "returned", 0, PyInt(DefaultPort), config, <<>>, <<>>, <<>>)
    ELSE Call("GetServerPort", "returned", 0, config_raw["server"]["port"], config,
              <<>>, <<>>, <<>>)


(***************************************************************************)
(* The process: the file on disk, the module global, and the calls         *)
(***************************************************************************)

\* Bounds: LoadConfig calls and outside edits of the file in one run.
MaxLoads == 2
MaxEdits == 1

OnDisk(lines) == [exists |-> TRUE, lines |-> lines]

EdcbUrl == <<"tcp://", "edcb-host", ":", "4510", "/">>
MirakurunUrl == <<"http://", "mirakurun", ":", "40772", "/">>
UploadFolder == <<"/", "captures">>
TsPath == <<"/", "debug.ts">>

\* A config.yaml with every field of the schema, as config.example.yaml has.
BaseLines ==
    << SecLine("general"),
       KvLine("backend", SQ(<<"EDCB">>)),
       KvLine("edcb_url", SQ(EdcbUrl)),
       KvLine("mirakurun_url", SQ(MirakurunUrl)),
       KvLine("encoder", SQ(<<"FFmpeg">>)),
       KvLine("program_update_interval", <<"5", ".", "0">>),
       KvLine("debug", <<"false">>),
       KvLine("debug_encoder", <<"false">>),
       SecEndLine,
       SecLine("server"),
       KvLine("port", IntToAtoms(DefaultPort)),
       KvLine("custom_https_certificate", <<"null">>),
       KvLine("custom_https_private_key", <<"null">>),
       SecEndLine,
       SecLine("tv"),
       KvLine("max_alive_time", <<"1", "0">>),
       KvLine("debug_mode_ts_path", <<"null">>),
       SecEndLine,
       SecLine("capture"),
       KvLine("upload_folder", SQ(UploadFolder)),
       SecEndLine,
       SecLine("twitter"),
       KvLine("consumer_key", <<"null">>),
       KvLine("consumer_secret", <<"null">>),
       SecEndLine >>

\* What the validators may meet: the machine, the encoder's --check-hw
\* output, the listening sockets, the two backends, the paths that exist.
GoodEnv ==
    [arch |-> "x86_64",
     stdout |-> <<>>,
     conns |-> {},
     me |-> 2,
     ppid |-> [p \in ProcIds |-> IF p = 2 THEN 1 ELSE 0],
     enum_service |-> PyList(<<>>),
     response |-> "version",
     files |-> {TsPath, _DOCKER_PATH_PREFIX \o TsPath},
     dirs |-> {UploadFolder, _DOCKER_PATH_PREFIX \o UploadFolder}]

Envs ==
    { GoodEnv,
      [GoodEnv EXCEPT !.arch = "aarch64"],
      [GoodEnv EXCEPT !.stdout = <<{"unavailable."}>>],
      [GoodEnv EXCEPT !.conns = {[status |-> "LISTEN", pid |-> 3, lport |-> 7010]}],
      [GoodEnv EXCEPT !.enum_service = None],
      [GoodEnv EXCEPT !.response = "error"],
      [GoodEnv EXCEPT !.response = "other"],
      [GoodEnv EXCEPT !.files = {}, !.dirs = {}] }

\* Manual edits of the file.
RECURSIVE SetTok(_, _, _)
SetTok(lines, key, tok) ==
    IF lines = <<>> THEN <<>>
    ELSE (IF Head(lines).shape = "kv" /\ Head(lines).key = key
          THEN <<[Head(lines) EXCEPT !.tok = tok]>> ELSE <<Head(lines)>>)
         \o SetTok(Tail(lines), key, tok)

RECURSIVE DropKey(_, _)
DropKey(lines, key) ==
    IF lines = <<>> THEN <<>>
    ELSE (IF Head(lines).shape = "kv" /\ Head(lines).key = key
          THEN <<>> ELSE <<Head(lines)>>)
         \o DropKey(Tail(lines), key)

RECURSIVE DropSection(_, _, _)
DropSection(lines, section, inside) ==
    IF lines = <<>> THEN <<>>
    ELSE LET l == Head(lines) IN
         IF l.shape = "sec" /\ l.key = section THEN DropSection(Tail(lines), section, TRUE)
         ELSE IF inside THEN DropSection(Tail(lines), section, l.shape # "sec_end")
         ELSE <<l>> \o DropSection(Tail(lines), section, FALSE)

TokenEdits ==
    { <<"port", IntToAtoms(7001)>>,
      <<"port", SQ(<<"x">>)>>,
      <<"edcb_url", IntToAtoms(4510)>> }

KeyDrops == {"debug_mode_ts_path"}
SectionDrops == {"general"}

EditedFiles ==
    {Missing, OnDisk(BaseLines), OnDisk(<<CommentLine(0, "empty")>>),
     OnDisk(<<SecEndLine>> \o BaseLines)}
    \cup { OnDisk(SetTok(BaseLines, e[1], e[2])) : e \in TokenEdits }
    \cup { OnDisk(DropKey(BaseLines, k)) : k \in KeyDrops }
    \cup { OnDisk(DropSection(BaseLines, sec, FALSE)) : sec \in SectionDrops }

\* The documents a caller makes from the loaded one to have them saved.
Modified(config) ==
    { Put(config, "server", Put(config["server"], "port", PyInt(7001))),
      Put(config, "twitter", Put(config["twitter"], "consumer_key", PyStr(<<"k", "'", "s">>))) }

\* The successful call as hist keeps it: what it returned, and the
\* server.port the file held when it was made.
NoCalls == [calls |-> 0, loaded |-> None]

Loaded(call, disk) ==
    [outcome |-> call.outcome, value |-> call.value,
     port |-> GetServerPortRun(None, disk).value]

Init ==
    /\ file \in {Missing, OnDisk(BaseLines)}
    /\ _CONFIG = None
    /\ pending = None
    /\ ret = None
    /\ hist = NoCalls
    /\ edits = 0
    /\ docker \in BOOLEAN
    /\ inp = None
    /\ out = None

LoadConfig ==
    /\ hist.calls < MaxLoads
    /\ \E bypass_validation \in BOOLEAN :
       \E env \in IF bypass_validation THEN {GoodEnv} ELSE Envs :
          LET call == LoadConfigRun(_CONFIG, file, bypass_validation, docker, env) IN
          /\ ret' = call
          /\ _CONFIG' = call.config
          /\ hist' = [calls |-> hist.calls + 1,
                      loaded |-> IF call.outcome = "returned"
                                 THEN Loaded(call, file) ELSE hist.loaded]
    /\ UNCHANGED <<file, pending, edits, docker, inp, out>>

Config ==
    /\ ret' = ConfigRun(_CONFIG)
    /\ UNCHANGED <<file, _CONFIG, pending, hist, edits, docker, inp, out>>

GetServerPort ==
    /\ ret' = GetServerPortRun(_CONFIG, file)
    /\ UNCHANGED <<file, _CONFIG, pending, hist, edits, docker, inp, out>>

\* A caller takes Config() and builds a changed document from it.
ModifyCopy ==
    /\ _CONFIG # None
    /\ pending = None
    /\ pending' \in Modified(_CONFIG)
    /\ UNCHANGED <<file, _CONFIG, ret, hist, edits, docker, inp, out>>

\* SaveConfig(config) with config the loaded document or the caller's.
SaveConfig ==
    \E which \in {"_CONFIG", "pending"} :
        LET config == IF which = "_CONFIG" THEN _CONFIG ELSE pending IN
        /\ config # None
        /\ LET saved == SaveConfigRun(config, file, docker)
               after == IF saved.raised = "" \/ ~SaveDictRaises(config, docker)
                        THEN DocumentAfterSave(config, SaveDict(config, docker))
                        ELSE config
               global == IF which = "_CONFIG" THEN after ELSE _CONFIG
           IN  /\ file' = IF saved.raised = "" THEN OnDisk(saved.lines) ELSE file
               /\ _CONFIG' = global
               /\ pending' = IF which = "pending" THEN after ELSE pending
               /\ ret' = Call("SaveConfig",
                              IF saved.raised = "" THEN "returned" ELSE saved.raised,
                              0, None, global, <<>>, <<>>, <<>>)
        /\ UNCHANGED <<hist, edits, docker, inp, out>>

\* Somebody edits, replaces or removes config.yaml.
ExternalEdit ==
    /\ edits < MaxEdits
    /\ file' \in EditedFiles \ {file}
    /\ edits' = edits + 1
    /\ UNCHANGED <<_CONFIG, pending, ret, hist, docker, inp, out>>

Next == LoadConfig \/ Config \/ GetServerPort \/ ModifyCopy \/ SaveConfig \/ ExternalEdit

Spec == Init /\ [][Next]_vars

\* The last call, when it was a call of op.
Last(op) == ret # None /\ ret.op = op

HasErrorLog(logs) == \E i \in 1..Len(logs) : logs[i].level = "error"

\* server.port of the file as it is now.
PortOnDisk == GetServerPortRun(None, file).value

\* C1: every LoadConfig call other than the first one in the process fails
\* the 'already loaded' assertion, whatever the flag and the file.
C1_SecondLoadAsserts ==
    (Last("LoadConfig") /\ hist.calls >= 2) => ret.outcome = "AssertionError"

\* C2: Config() fails its assertion in every state in which no LoadConfig
\* call has completed successfully, before any load and after one that
\* ended in a fatal exit; the global is then still unset.
C2_ConfigNeedsLoad ==
    (hist.loaded = None) =>
        /\ _CONFIG = None
        /\ Last("Config") => ret.outcome = "AssertionError"

\* Config() was called after a LoadConfig that exited, and asserted.
C2_Witness ==
    /\ Last("Config")
    /\ hist.calls >= 1
    /\ hist.loaded = None
    /\ ret.outcome = "AssertionError"

\* C3: once a LoadConfig has succeeded, the global is the document that call
\* returned, with the server.port the file held then; Config() returns it;
\* and no later step (SaveConfig, GetServerPort, an edit of the file, a
\* further LoadConfig) changes it or changes a document handed to SaveConfig.
C3_SingletonStable ==
    [][ (hist'.loaded # None) =>
            /\ _CONFIG' = hist'.loaded.value
            /\ _CONFIG'["server"]["port"] = hist'.loaded.port
            /\ (ret'.op = "Config" => (ret'.outcome = "returned" /\ ret'.value = hist'.loaded.value))
            /\ (pending # None => pending' = pending) ]_vars

\* Under Docker, the loaded document was changed by a caller and saved over
\* the file, no one else touched the file, and Config() was called after.
C3_Witness ==
    /\ hist.loaded # None
    /\ docker
    /\ edits = 0
    /\ hist.loaded.port = PyInt(DefaultPort)
    /\ PortOnDisk = PyInt(7001)
    /\ Last("Config")
    /\ ret.outcome = "returned"

\* C4: a LoadConfig call either returns with the global set, or logs at
\* error level and exits with a non-zero status (or fails the reentry
\* assertion); no other exception reaches the caller.
C4_FailuresExit ==
    Last("LoadConfig") =>
        \/ ret.outcome = "returned" /\ _CONFIG # None
        \/ ret.outcome = "SystemExit" /\ ret.status # 0 /\ HasErrorLog(ret.logs)
        \/ ret.outcome = "AssertionError"


(***************************************************************************)
(* Specifications of the validators as functions of their environment     *)
(***************************************************************************)

\* The rest of the state, held fixed while a pure function is checked.
Idle ==
    /\ file = Missing
    /\ _CONFIG = None
    /\ pending = None
    /\ ret = None
    /\ hist = NoCalls
    /\ edits = 0
    /\ docker = FALSE

IdleUnchanged == UNCHANGED <<file, _CONFIG, pending, ret, hist, edits, docker>>

PortInit ==
    /\ Idle
    /\ inp \in [me : ProcIds, ppid : ProcTables, conns : {{}}]
    /\ out = None

\* Some process opens a socket (psutil.net_connections() grows).
OpenSocket ==
    /\ out = None
    /\ Cardinality(inp.conns) < MaxConns
    /\ \E c \in Conns : inp' = [inp EXCEPT !.conns = @ \cup {c}]
    /\ UNCHANGED out
    /\ IdleUnchanged

ValidatePort ==
    /\ out = None
    /\ \E port \in PortCandidates :
          out' = [port |-> port,
                  res |-> validate_port(port, inp.conns, inp.me, inp.ppid)]
    /\ UNCHANGED inp
    /\ IdleUnchanged

PortNext == OpenSocket \/ ValidatePort

SpecPort == PortInit /\ [][PortNext]_vars

\* A foreign listener exists on q: listening, owner known and not a relative.
ForeignListener(q) ==
    \E c \in inp.conns :
        /\ c.status = "LISTEN"
        /\ c.lport = q
        /\ c.pid # NoPid
        /\ c.pid # inp.me
        /\ c.pid # inp.ppid[inp.me]
        /\ inp.ppid[c.pid] # inp.me
        /\ inp.ppid[c.pid] # inp.ppid[inp.me]

NoForeignListeners == \A q \in SocketPorts : ~ForeignListener(q)

\* C8: with no listening socket of an unrelated process, validate_port
\* accepts p exactly when 1024 <= p <= 65525; a rejection then carries the
\* port-range message; every accepted p has p + 10 <= 65535.
C8_PortRange ==
    (out # None) =>
        /\ NoForeignListeners =>
              /\ out.res.ok <=> (1024 <= out.port /\ out.port <= 65525)
              /\ ~out.res.ok => out.res.msg = "port-range"
        /\ out.res.ok => out.port + 10 <= 65535

C8_Witness ==
    /\ out # None
    /\ NoForeignListeners
    /\ inp.conns # {}
    /\ out.port = 65525
    /\ out.res.ok

\* C9: an in-range port p is rejected exactly when p or p + 10 is the local
\* port of a listening socket whose owner is known and is neither the
\* current process, its parent, a child nor a sibling; the message names
\* the port that is in conflict.
C9_PortConflict ==
    (out # None /\ 1024 <= out.port /\ out.port <= 65525) =>
        /\ ~out.res.ok <=> (ForeignListener(out.port) \/ ForeignListener(out.port + 10))
        /\ ~out.res.ok =>
              /\ out.res.msg = "port-in-use"
              /\ out.res.named \in {out.port, out.port + 10}
              /\ ForeignListener(out.res.named)

C9_Witness ==
    /\ out # None
    /\ out.port = 7000
    /\ ~out.res.ok
    /\ out.res.named = 7010
    /\ \E c \in inp.conns :
          c.status = "LISTEN" /\ c.lport = 7000 /\ c.pid # NoPid /\ c.pid # inp.me


EncoderInit ==
    /\ Idle
    /\ inp \in [arch : Archs, encoder : Encoders, stdout : {<<>>}]
    /\ out = None

\* The encoder binary's --check-hw output, one line at a time.
HwOutputLine ==
    /\ out = None
    /\ Len(inp.stdout) < MaxOutLines
    /\ \E line \in SUBSET Markers : inp' = [inp EXCEPT !.stdout = Append(@, line)]
    /\ UNCHANGED out
    /\ IdleUnchanged

ValidateEncoder ==
    /\ out = None
    /\ out' = validate_encoder(inp.encoder, inp.arch, inp.stdout)
    /\ UNCHANGED inp
    /\ IdleUnchanged

EncoderNext == HwOutputLine \/ ValidateEncoder

SpecEncoder == EncoderInit /\ [][EncoderNext]_vars

Ran(flag) == \E i \in 1..Len(out.procs) : out.procs[i].flag = flag

\* C10: rkmppenc on AMD64 / x86_64 and QSVEncC, NVEncC, VCEEncC on aarch64
\* are rejected before any encoder subprocess is started; with encoder
\* FFmpeg the --check-hw probe is never run, on any architecture.
C10_EncoderArch ==
    (out # None) =>
        /\ (inp.arch \in {"AMD64", "x86_64"} /\ inp.encoder = "rkmppenc")
              => (~out.ok /\ out.procs = <<>>)
        /\ (inp.arch = "aarch64" /\ inp.encoder \in {"QSVEncC", "NVEncC", "VCEEncC"})
              => (~out.ok /\ out.procs = <<>>)
        /\ inp.encoder = "FFmpeg" => ~Ran("--check-hw")

C10_Witness ==
    /\ out # None
    /\ inp.arch = "aarch64"
    /\ inp.encoder = "NVEncC"
    /\ Len(inp.stdout) = 2
    /\ ~Contains(inp.stdout, "unavailable.")
    /\ ~out.ok
    /\ out.msg = "arm64-hwencc"


(***************************************************************************)
(* SaveConfig as a function of the file and the document                   *)
(***************************************************************************)

\* Bound: what the user added to the stock file, in chunks of lines.
MaxChunks == 2

\* Lines a user adds to the general section of config.yaml.
ListChunk ==
    << Line(8, "lopen", "channels", "'", <<>>, ""),
       Line(12, "elem", "", "", SQ(<<"a">>), ""),
       CommentLine(12, "second"),
       Line(12, "elem_last", "", "", SQ(<<"b">>), ""),
       Line(8, "lclose", "", "", <<>>, "") >>

Chunks ==
    { <<CommentLine(8, "note")>>,
      <<BlankLine>>,
      <<KvLine("legacy", <<"1">>)>>,
      <<Line(8, "kv", "label", "\"", DQ(<<"x">>), "")>>,
      <<Line(8, "kv", "hint", "'", <<"2">>, "why")>>,
      ListChunk }

\* The stock file, its two URLs written without the final slash.
StockLines ==
    SetTok(SetTok(BaseLines, "edcb_url", SQ(RStripSlash(EdcbUrl))),
           "mirakurun_url", SQ(RStripSlash(MirakurunUrl)))

\* The stock file with the added lines at the head of its general section.
WithChunks(added) == <<Head(StockLines)>> \o added \o Tail(StockLines)

\* What a caller changes in the loaded document before saving it.
NoChange == [section |-> "", key |-> "", value |-> None]
Change(section, key, value) == [section |-> section, key |-> key, value |-> value]
Changes ==
    { NoChange,
      Change("general", "debug", PyBool(TRUE)),
      Change("server", "port", PyInt(7001)),
      Change("twitter", "consumer_key", PyStr(<<"k", "'", "s">>)),
      Change("twitter", "consumer_secret", PyStr(<<"a", "\\", "b">>)) }

Apply(config, change) ==
    IF change = NoChange THEN config
    ELSE Put(config, change.section, Put(config[change.section], change.key, change.value))

SaveInit ==
    /\ Idle
    /\ inp = [chunks |-> 0, added |-> <<>>]
    /\ out = None

\* The user adds lines to the file.
AddChunk ==
    /\ out = None
    /\ inp.chunks < MaxChunks
    /\ \E chunk \in Chunks :
          inp' = [chunks |-> inp.chunks + 1, added |-> inp.added \o chunk]
    /\ UNCHANGED out
    /\ IdleUnchanged

\* The file is loaded; out keeps its lines and the document.
LoadFile ==
    /\ out = None
    /\ \E bypass_validation \in BOOLEAN :
          LET disk == OnDisk(WithChunks(inp.added))
              call == LoadConfigRun(None, disk, bypass_validation, FALSE, GoodEnv)
          IN  /\ call.outcome = "returned"
              /\ out' = [lines |-> disk.lines,
                         loaded |-> call.value,
                         change |-> NoChange,
                         config |-> None,
                         res |-> None]
    /\ UNCHANGED inp
    /\ IdleUnchanged

\* A caller changes the loaded document and has it saved.
SaveLoaded ==
    /\ out # None
    /\ out.res = None
    /\ \E change \in Changes :
          out' = [out EXCEPT !.change = change,
                             !.config = Apply(out.loaded, change),
                             !.res = SaveConfigRun(Apply(out.loaded, change),
                                                   OnDisk(out.lines), FALSE)]
    /\ UNCHANGED inp
    /\ IdleUnchanged

SaveNext == AddChunk \/ LoadFile \/ SaveLoaded

SpecSave == SaveInit /\ [][SaveNext]_vars

SaveReturned == out # None /\ out.res # None /\ out.res.raised = ""

\* The section a line stands in: the key of the last section opening above.
RECURSIVE SectionAt(_, _)
SectionAt(lines, i) ==
    IF i <= 1 THEN ""
    ELSE IF parent_key_match(lines[i - 1]) THEN lines[i - 1].key
    ELSE SectionAt(lines, i - 1)

\* Line i holds a field of the document: a scalar or list-opening line
\* whose key the document has in the line's section.
FieldLine(lines, config, i) ==
    /\ key_value_match(lines[i]) \/ list_start_match(lines[i])
    /\ SectionAt(lines, i) \in DOMAIN config
    /\ lines[i].key \in DOMAIN config[SectionAt(lines, i)]

\* Python's ==, with a path compared by its text.
SameValue(a, b) ==
    \/ a = b
    \/ a.t \in {"int", "float"} /\ b.t \in {"int", "float"}
       /\ (IF a.t = "int" THEN a.v * 10 ELSE a.v) = (IF b.t = "int" THEN b.v * 10 ELSE b.v)
    \/ a.t \in {"str", "Path"} /\ b.t \in {"str", "Path"} /\ a.v = b.v

\* C5: after SaveConfig(D) the structural parse of the written file gives
\* D's value for every field the file has a recognized line for.
C5_RoundTrip ==
    SaveReturned =>
        LET parsed == YamlLoad(out.res.lines) IN
        /\ parsed # ParseError
        /\ parsed # None
        /\ \A i \in 1..Len(out.lines) :
              FieldLine(out.lines, out.config, i) =>
                  LET section == SectionAt(out.lines, i)
                      key == out.lines[i].key
                  IN  /\ Has(parsed, section, key)
                      /\ SameValue(parsed[section][key], out.config[section][key])

RECURSIVE IsSubSeq(_, _)
IsSubSeq(s, t) ==
    IF s = <<>> THEN TRUE
    ELSE IF t = <<>> THEN FALSE
    ELSE IF Head(s) = Head(t) THEN IsSubSeq(Tail(s), Tail(t))
    ELSE IsSubSeq(s, Tail(t))

NotRecognized(l) == ~Recognized(l)

\* C6: the lines of the file that match none of the four shapes all appear
\* in SaveConfig's output, unaltered and in the same order.
C6_Verbatim ==
    SaveReturned => IsSubSeq(SelectSeq(out.lines, NotRecognized), out.res.lines)

\* The scalar lines of the file whose field has another value in the
\* document handed to SaveConfig.
ChangedLines ==
    { i \in 1..Len(out.lines) :
        /\ key_value_match(out.lines[i])
        /\ FieldLine(out.lines, out.config, i)
        /\ ~SameValue(ParseToken(out.lines[i].tok),
                      out.config[SectionAt(out.lines, i)][out.lines[i].key]) }

\* C7: when the document differs from the file in one scalar field that has
\* a scalar line, the output differs from the input in that line only, and
\* there in the value token only.
C7_OneLine ==
    (SaveReturned /\ Cardinality(ChangedLines) = 1) =>
        /\ Len(out.res.lines) = Len(out.lines)
        /\ \A i \in 1..Len(out.lines) :
              IF i \in ChangedLines
              THEN out.res.lines[i] = [out.lines[i] EXCEPT !.tok = out.res.lines[i].tok]
              ELSE out.res.lines[i] = out.lines[i]

(***************************************************************************)
(* validate_edcb_url as a function of the URL and the EDCB service         *)
(***************************************************************************)

\* Bound: the parts of the URL after its scheme.
MaxUrlParts == 3

UrlParts == {"edcb-host", "edcb-namedpipe", ":", "4510", "/"}

Backends == {PyStr(<<"EDCB">>), PyStr(<<"Mirakurun">>)}

EdcbInit ==
    /\ Idle
    /\ inp \in [edcb_url : {<<"tcp://">>}, backend : Backends,
                enum_service : {None, PyList(<<>>)}]
    /\ out = None

\* edcb_url as written in config.yaml, part by part.
WriteUrlPart ==
    /\ out = None
    /\ Len(inp.edcb_url) < 1 + MaxUrlParts
    /\ \E part \in UrlParts : inp' = [inp EXCEPT !.edcb_url = Append(@, part)]
    /\ UNCHANGED out
    /\ IdleUnchanged

ValidateEdcbUrl ==
    /\ out = None
    /\ out' = validate_edcb_url(inp.edcb_url, inp.backend, inp.enum_service)
    /\ UNCHANGED inp
    /\ IdleUnchanged

EdcbNext == WriteUrlPart \/ ValidateEdcbUrl

SpecEdcb == EdcbInit /\ [][EdcbNext]_vars

NamedPipe == PyStr(<<"edcb-namedpipe">>)

\* C11: with backend EDCB, a URL with no host, or with no port and a host
\* other than edcb-namedpipe, is rejected with the domain error and no
\* network call; host edcb-namedpipe without a port goes on to the service
\* enumeration, whose null result is the reachability failure.
C11_EdcbUrl ==
    (out # None /\ inp.backend = PyStr(<<"EDCB">>)) =>
        LET edcb_host == getEDCBHost(inp.edcb_url)
            edcb_port == getEDCBPort(inp.edcb_url)
        IN  /\ (edcb_host = None \/ (edcb_port = None /\ edcb_host # NamedPipe)) =>
                  (~out.ok /\ out.msg = "edcb-no-host-or-port" /\ out.net = <<>>)
            /\ (edcb_host = NamedPipe /\ edcb_port = None) =>
                  /\ out.net = <<"sendEnumService">>
                  /\ inp.enum_service = None => (~out.ok /\ out.msg = "edcb-unreachable")
                  /\ inp.enum_service # None => out.ok

\* The sentinel host without a port, the service not answering.
C11_Witness ==
    /\ out # None
    /\ inp.backend = PyStr(<<"EDCB">>)
    /\ inp.edcb_url = <<"tcp://", "edcb-namedpipe", "/">>
    /\ inp.enum_service = None
    /\ out.msg = "edcb-unreachable"

(***************************************************************************)
(* One LoadConfig call, over files and environments                        *)
(***************************************************************************)

\* Bound: the fields of the stock file the user rewrote.
MaxFieldEdits == 2

FieldEdits ==
    { <<"backend", SQ(<<"Mirakurun">>)>>,
      <<"backend", SQ(<<"Foo">>)>>,
      <<"port", SQ(<<"x">>)>>,
      <<"port", IntToAtoms(PortMin - 1)>> }

LoadInit ==
    /\ file = OnDisk(BaseLines)
    /\ _CONFIG = None
    /\ pending = None
    /\ ret = None
    /\ hist = NoCalls
    /\ edits = 0
    /\ docker \in BOOLEAN
    /\ inp = None
    /\ out = None

\* The user rewrites a field of config.yaml before the server is started.
EditField ==
    /\ ret = None
    /\ edits < MaxFieldEdits
    /\ \E e \in FieldEdits : file' = OnDisk(SetTok(file.lines, e[1], e[2]))
    /\ edits' = edits + 1
    /\ UNCHANGED <<_CONFIG, pending, ret, hist, docker, inp, out>>

\* The process calls LoadConfig; out keeps the flag and the environment.
LoadOnce ==
    /\ ret = None
    /\ \E bypass_validation \in BOOLEAN, env \in Envs :
          LET call == LoadConfigRun(_CONFIG, file, bypass_validation, docker, env) IN
          /\ ret' = call
          /\ _CONFIG' = call.config
          /\ hist' = [calls |-> hist.calls + 1,
                      loaded |-> IF call.outcome = "returned"
                                 THEN Loaded(call, file) ELSE hist.loaded]
          /\ out' = [bypass_validation |-> bypass_validation, env |-> env]
    /\ UNCHANGED <<file, pending, edits, docker, inp>>

LoadNext == EditField \/ LoadOnce

SpecLoad == LoadInit /\ [][LoadNext]_vars

StrictLoad == ret # None /\ ~out.bypass_validation
UncheckedLoad == ret # None /\ out.bypass_validation

\* general.backend as the file has it.
BackendOnDisk == YamlLoad(file.lines)["general"]["backend"]

Issued(call, probe) == \E i \in 1..Len(call.net) : call.net[i] = probe

\* The same strict call with the other backend's server answering / not.
WithResponse(response) ==
    LoadConfigRun(None, file, FALSE, docker, [out.env EXCEPT !.response = response])
WithEnumService(enum_service) ==
    LoadConfigRun(None, file, FALSE, docker, [out.env EXCEPT !.enum_service = enum_service])

\* C12: in a strict load the EDCB probe is issued only with backend EDCB,
\* the Mirakurun probe only with backend Mirakurun, at most one of them,
\* none when the backend value is invalid; whether the server of the
\* backend not selected answers changes nothing in the call.
C12_ProbeSelected ==
    StrictLoad =>
        /\ Len(ret.net) <= 1
        /\ Issued(ret, "sendEnumService") => BackendOnDisk = PyStr(<<"EDCB">>)
        /\ Issued(ret, "GET /api/version") => BackendOnDisk = PyStr(<<"Mirakurun">>)
        /\ BackendOnDisk \notin Backends => ret.net = <<>>
        /\ BackendOnDisk = PyStr(<<"EDCB">>) =>
              \A response \in {"version", "error", "other"} : WithResponse(response) = ret
        /\ BackendOnDisk = PyStr(<<"Mirakurun">>) =>
              \A enum_service \in {None, PyList(<<>>)} : WithEnumService(enum_service) = ret

\* Backend EDCB, Mirakurun unreachable: the load succeeds after one probe.
C12_Witness ==
    /\ StrictLoad
    /\ BackendOnDisk = PyStr(<<"EDCB">>)
    /\ out.env.response = "error"
    /\ ret.outcome = "returned"
    /\ ret.net = <<"sendEnumService">>


\* What the normalization block makes of a raw value of the stock sections.
NormalizedValue(section, key, value) ==
    IF section = "general" /\ key \in {"edcb_url", "mirakurun_url"}
    THEN PyStr(RStripSlash(value.v))
    ELSE IF docker /\ section = "capture" /\ key = "upload_folder"
    THEN PyStr(_DOCKER_PATH_PREFIX \o value.v)
    ELSE IF docker /\ section = "tv" /\ key = "debug_mode_ts_path" /\ value.t = "str"
    THEN PyStr(_DOCKER_PATH_PREFIX \o value.v)
    ELSE value

\* C13: with bypass_validation no validator runs: no subprocess, no probe,
\* no dependence on the sockets or the servers, no range check: a file
\* that parses and has its five sections is accepted; when the call
\* returns, the singleton holds every raw value of the file as the
\* normalization block left it, neither coerced nor rejected.
C13_Bypass ==
    UncheckedLoad =>
        /\ ret.procs = <<>> /\ ret.net = <<>>
        /\ \A env \in Envs : LoadConfigRun(None, file, TRUE, docker, env) = ret
        /\ LET config_raw == YamlLoad(file.lines) IN
           (/\ config_raw \notin {None, ParseError}
            /\ Normalize(config_raw, docker).raised \in {"", "KeyError"}
            /\ ~UnverifiedRaises(config_raw)) => ret.outcome = "returned"
        /\ ret.outcome = "returned" =>
              LET config_raw == YamlLoad(file.lines) IN
              /\ _CONFIG = ret.value
              /\ DOMAIN _CONFIG = DOMAIN config_raw
              /\ \A section \in DOMAIN config_raw : \A key \in DOMAIN config_raw[section] :
                    _CONFIG[section][key]
                        = NormalizedValue(section, key, config_raw[section][key])

\* An unchecked load of a file whose port fails the range check and whose
\* backend is no Literal, with the EDCB server down: it returns them as is.
C13_Witness ==
    /\ UncheckedLoad
    /\ ret.outcome = "returned"
    /\ out.env.enum_service = None
    /\ _CONFIG["server"]["port"] = PyInt(PortMin - 1)
    /\ _CONFIG["general"]["backend"] = PyStr(<<"Foo">>)


\* What Logging.error was called with, in order.
ErrorLogs(logs) == SelectSeq(logs, LAMBDA l : l.level = "error")

\* error.errors() of the strict validation of the file as it is; none when
\* the call does not get as far as the validation.
AggregatedErrors ==
    LET config_raw == YamlLoad(file.lines) IN
    IF config_raw \in {None, ParseError} THEN <<>>
    ELSE LET n == Normalize(config_raw, docker) IN
         IF n.raised \notin {"", "KeyError"} THEN <<>>
         ELSE ServerSettings(n.dict, out.env).errs
DomainErrors == SelectSeq(AggregatedErrors, LAMBDA e : e.domain)

\* C14: a strict load whose validation fails exits with status 1 and
\* leaves the singleton unset; with a domain error among the aggregated
\* errors the error logs are the segments of the domain messages (two per
\* message) and nothing else, with none they are the two lines of the
\* generic explanation and the error itself.
C14_FailureLogs ==
    (StrictLoad /\ AggregatedErrors # <<>>) =>
        /\ ret.outcome = "SystemExit" /\ ret.status = 1
        /\ _CONFIG = None
        /\ DomainErrors # <<>> =>
              /\ Len(ErrorLogs(ret.logs)) = 2 * Len(DomainErrors)
              /\ \A i \in 1..Len(DomainErrors) :
                    /\ ErrorLogs(ret.logs)[2 * i - 1].msg = DomainErrors[i].msg
                    /\ ErrorLogs(ret.logs)[2 * i].msg = DomainErrors[i].msg
        /\ DomainErrors = <<>> =>
              ErrorLogs(ret.logs)
                  = <<LogMsg("error", "invalid settings"),
                      LogMsg("error", "see the errors below"),
                      LogMsg("error", "ValidationError")>>

\* A port that is no integer together with an EDCB server that is down:
\* only the two lines about EDCB are logged.
C14_Witness ==
    /\ StrictLoad
    /\ Len(AggregatedErrors) > Len(DomainErrors)
    /\ Len(DomainErrors) = 1
    /\ ret.outcome = "SystemExit"
    /\ Len(ErrorLogs(ret.logs)) = 2
    /\ ErrorLogs(ret.logs)[1].msg = "edcb-unreachable"


\* C15: GetServerPort returns and never raises; what it returns is an
\* integer: 7000 when the file is missing, empty, unparsable or has no
\* server.port, else the server.port of the file as it is at the call;
\* the singleton is as it was.
C15_PortInteger ==
    Last("GetServerPort") =>
        /\ ret.outcome = "returned"
        /\ ret.value.t = "int"
        /\ ret.config = _CONFIG
        /\ LET config_raw == IF file = Missing THEN ParseError ELSE YamlLoad(file.lines) IN
           IF config_raw \in {ParseError, None} \/ ~Has(config_raw, "server", "port")
           THEN ret.value = PyInt(DefaultPort)
           ELSE ret.value = config_raw["server"]["port"]


(***************************************************************************)
(* Load and save in a container                                            *)
(***************************************************************************)

\* Bound: the path fields the user wrote before the server is started.
MaxPathEdits == 2

\* A host folder whose path has the prefix's text further in.
NestedFolder == <<"/", "srv">> \o _DOCKER_PATH_PREFIX \o UploadFolder

PathEdits ==
    { <<"debug_mode_ts_path", SQ(TsPath)>>,
      <<"upload_folder", SQ(NestedFolder)>>,
      <<"upload_folder", SQ(<<"/", "media">>)>> }

DockerInit ==
    /\ file = OnDisk(BaseLines)
    /\ _CONFIG = None
    /\ pending = None
    /\ ret = None
    /\ hist = NoCalls
    /\ edits = 0
    /\ docker = TRUE
    /\ inp = None
    /\ out = None

WritePath ==
    /\ ret = None
    /\ edits < MaxPathEdits
    /\ \E e \in PathEdits : file' = OnDisk(SetTok(file.lines, e[1], e[2]))
    /\ edits' = edits + 1
    /\ UNCHANGED <<_CONFIG, pending, ret, hist, docker, inp, out>>

\* SaveConfig(Config()) right after the load; inp keeps the file as it was.
SaveBack ==
    /\ Last("LoadConfig")
    /\ ret.outcome = "returned"
    /\ LET saved == SaveConfigRun(_CONFIG, file, docker) IN
       /\ file' = IF saved.raised = "" THEN OnDisk(saved.lines) ELSE file
       /\ ret' = Call("SaveConfig", IF saved.raised = "" THEN "returned" ELSE saved.raised,
                      0, None, _CONFIG, <<>>, <<>>, <<>>)
    /\ inp' = file
    /\ UNCHANGED <<_CONFIG, pending, hist, edits, docker, out>>

DockerNext == WritePath \/ LoadOnce \/ SaveBack

SpecDocker == DockerInit /\ [][DockerNext]_vars

\* The value a file has for a field, None when it does not parse.
FieldOnDisk(disk, section, key) ==
    LET config_raw == YamlLoad(disk.lines) IN
    IF config_raw \in {None, ParseError} \/ ~Has(config_raw, section, key) THEN None
    ELSE config_raw[section][key]

\* C16: in a container, after LoadConfig and SaveConfig of the loaded
\* document, strict or unchecked, config.yaml holds for upload_folder and
\* for debug_mode_ts_path the host path it held before the load.
C16_DockerRoundTrip ==
    (Last("SaveConfig") /\ ret.outcome = "returned" /\ docker) =>
        /\ FieldOnDisk(file, "capture", "upload_folder")
              = FieldOnDisk(inp, "capture", "upload_folder")
        /\ FieldOnDisk(file, "tv", "debug_mode_ts_path")
              = FieldOnDisk(inp, "tv", "debug_mode_ts_path")


(***************************************************************************)
(* config.yaml edited by hand between the load and the save                *)
(***************************************************************************)

\* Bound: the edits made by hand after the load.
MaxLateEdits == 2

\* What a user does to the file: a line added at the head of the general
\* section, or another value written for a field.
LateEdits(lines) ==
    { <<Head(lines), CommentLine(8, "note")>> \o Tail(lines),
      <<Head(lines), KvLine("legacy", <<"1">>)>> \o Tail(lines),
      <<Head(lines)>> \o ListChunk \o Tail(lines),
      SetTok(lines, "port", IntToAtoms(7001)),
      SetTok(lines, "debug", <<"true">>) }

\* current_lines = file.readlines(): config.yaml opened inside SaveConfig.
ReadAtSave(loaded_disk, disk) == disk

\* inp keeps the file as it was at the load and, after the save, as it was
\* just before the save.
LateEdit ==
    /\ Last("LoadConfig")
    /\ ret.outcome = "returned"
    /\ edits < MaxLateEdits
    /\ \E lines \in LateEdits(file.lines) : file' = OnDisk(lines)
    /\ edits' = edits + 1
    /\ inp' = IF inp = None THEN [loaded |-> file, edited |-> None] ELSE inp
    /\ UNCHANGED <<_CONFIG, pending, ret, hist, docker, out>>

SaveLate ==
    /\ Last("LoadConfig")
    /\ ret.outcome = "returned"
    /\ LET loaded_disk == IF inp = None THEN file ELSE inp.loaded
           saved == SaveConfigRun(_CONFIG, ReadAtSave(loaded_disk, file), docker)
       IN  /\ file' = IF saved.raised = "" THEN OnDisk(saved.lines) ELSE file
           /\ ret' = Call("SaveConfig",
                          IF saved.raised = "" THEN "returned" ELSE saved.raised,
                          0, None, _CONFIG, <<>>, <<>>, <<>>)
           /\ inp' = [loaded |-> loaded_disk, edited |-> file]
    /\ UNCHANGED <<_CONFIG, pending, hist, edits, docker, out>>

LateNext == LoadOnce \/ LateEdit \/ SaveLate

SpecLate == LoadInit /\ [][LateNext]_vars

\* C17: after LoadConfig, edits by hand and SaveConfig, config.yaml is the
\* patch of the file as it stood just before the save: the lines of that
\* file matching none of the four shapes are all there, and the whole is
\* what SaveConfig makes of that file and the document.
C17_PatchesCurrentFile ==
    (Last("SaveConfig") /\ ret.outcome = "returned") =>
        /\ file = OnDisk(SaveConfigRun(_CONFIG, inp.edited, docker).lines)
        /\ IsSubSeq(SelectSeq(inp.edited.lines, NotRecognized), file.lines)


(***************************************************************************)
(* SaveConfig calls running at the same time, and an editor                *)
(***************************************************************************)

\* Bounds: the SaveConfig calls started, the edits made by hand.
MaxSaves == 2
MaxRaceEdits == 1

\* The threads of the process that call SaveConfig.
Savers == {"saver-1", "saver-2"}

\* The document the process loaded from the stock file, and the documents
\* the callers made from it.
StockConfig == LoadConfigRun(None, OnDisk(StockLines), FALSE, FALSE, GoodEnv).value
RaceConfigs ==
    { StockConfig,
      Put(StockConfig, "server", Put(StockConfig["server"], "port", PyInt(7001))),
      Put(StockConfig, "general", Put(StockConfig["general"], "debug", PyBool(TRUE))) }

\* The lines a call patches, re-read under a lock held up to the write.
LinesReadLocked(current_lines, disk) == disk.lines

\* The lines a call patches: current_lines, read at lines 406-409 and used
\* up to the write at lines 486-487, whatever the file has become.
LinesPatched(current_lines, disk) == current_lines

NotSaving == [pc |-> "idle", config |-> None, current_lines |-> <<>>, landed |-> <<>>]

\* A write or an edit lands: the calls that have read and not yet written
\* get it in their landed list.
Landing(savers, by, lines) ==
    [s \in Savers |->
        IF savers[s].pc = "read" /\ s # by
        THEN [savers[s] EXCEPT !.landed = Append(@, [by |-> by, lines |-> lines])]
        ELSE savers[s]]

RaceInit ==
    /\ file = OnDisk(StockLines)
    /\ _CONFIG = StockConfig
    /\ pending = None
    /\ ret = None
    /\ hist = NoCalls
    /\ edits = 0
    /\ docker = FALSE
    /\ inp = [s \in Savers |-> NotSaving]
    /\ out = None

\* with open(_CONFIG_YAML_PATH, 'r') as file: current_lines = file.readlines()
SaveRead ==
    /\ hist.calls < MaxSaves
    /\ \E s \in Savers, config \in RaceConfigs :
          /\ inp[s].pc = "idle"
          /\ inp' = [inp EXCEPT ![s] = [pc |-> "read", config |-> config,
                                        current_lines |-> file.lines, landed |-> <<>>]]
    /\ hist' = [hist EXCEPT !.calls = @ + 1]
    /\ UNCHANGED <<file, _CONFIG, pending, ret, edits, docker, out>>

\* with open(_CONFIG_YAML_PATH, 'w') as file: file.write(''.join(new_lines));
\* out keeps what the call read and what landed since.
SaveWrite ==
    \E s \in Savers :
        /\ inp[s].pc = "read"
        /\ LET saved == SaveConfigRun(inp[s].config,
                                      OnDisk(LinesPatched(inp[s].current_lines, file)),
                                      docker)
           IN  /\ saved.raised = ""
               /\ file' = OnDisk(saved.lines)
               /\ inp' = [Landing(inp, s, saved.lines) EXCEPT ![s] = NotSaving]
               /\ out' = [saver |-> s, config |-> inp[s].config,
                          current_lines |-> inp[s].current_lines,
                          landed |-> inp[s].landed]
               /\ ret' = Call("SaveConfig", "returned", 0, None, _CONFIG, <<>>, <<>>, <<>>)
        /\ UNCHANGED <<_CONFIG, pending, hist, edits, docker>>

\* The user adds a comment to config.yaml, or writes another value.
RaceEdit ==
    /\ edits < MaxRaceEdits
    /\ \E lines \in { <<Head(file.lines), CommentLine(8, "note")>> \o Tail(file.lines),
                      SetTok(file.lines, "debug", <<"true">>) } :
          /\ file' = OnDisk(lines)
          /\ inp' = Landing(inp, "editor", lines)
    /\ edits' = edits + 1
    /\ UNCHANGED <<_CONFIG, pending, ret, hist, docker, out>>

RaceNext == SaveRead \/ SaveWrite \/ RaceEdit

SpecRace == RaceInit /\ [][RaceNext]_vars

HasLine(lines, l) == \E i \in 1..Len(lines) : lines[i] = l

\* C18: the write of a SaveConfig call puts in the file the patch of the
\* lines that call read, whatever was written to the file since: nothing
\* makes the call wait or read again, and what landed in between is only
\* in the file as far as the call's own lines and document give it.
C18_WritesWhatItRead ==
    [][\A s \in Savers :
          (inp[s].pc = "read" /\ inp'[s].pc = "idle") =>
              /\ file'.lines = SaveConfigRun(inp[s].config, OnDisk(inp[s].current_lines),
                                             docker).lines
              /\ out'.landed = inp[s].landed]_vars

\* saver-1 reads; the user adds a comment; saver-2 reads, and writes the
\* file with debug true; saver-1 writes: the comment and saver-2's value
\* are both gone from the file.
C18_Witness ==
    /\ out # None
    /\ Len(out.landed) = 2
    /\ out.landed[1].by = "editor"
    /\ HasLine(out.landed[1].lines, CommentLine(8, "note"))
    /\ out.landed[2].by \in Savers
    /\ HasLine(out.landed[2].lines, KvLine("debug", <<"true">>))
    /\ file.lines = SaveConfigRun(out.config, OnDisk(out.current_lines), docker).lines
    /\ ~HasLine(file.lines, CommentLine(8, "note"))
    /\ ~HasLine(file.lines, KvLine("debug", <<"true">>))


\* The closing line of the list block opened at line i (the last line when
\* the block is not closed).
BlockEnd(lines, i) ==
    IF \E j \in (i + 1)..Len(lines) : list_end_match(lines[j])
    THEN CHOOSE j \in (i + 1)..Len(lines) :
            /\ list_end_match(lines[j])
            /\ \A k \in (i + 1)..(j - 1) : ~list_end_match(lines[k])
    ELSE Len(lines)

\* C19: a list block of the file whose field the document does not have in
\* the block's section is in SaveConfig's output in full and unchanged:
\* opening line, element lines, closing line.
C19_ForeignListKept ==
    SaveReturned =>
        \A i \in 1..Len(out.lines) :
            (list_start_match(out.lines[i]) /\ ~FieldLine(out.lines, out.config, i)) =>
                IsSubSeq(SubSeq(out.lines, i, BlockEnd(out.lines, i)), out.res.lines)


(***************************************************************************)
(* SaveConfig applied to its own output                                    *)
(***************************************************************************)

\* Bound: the SaveConfig calls made one after the other.
MaxResaves == 3

\* A well-formed file with a list field, and the document read from it
\* without validation (the list is one of its fields).
ListedLines == WithChunks(ListChunk)
ListedConfig == LoadConfigRun(None, OnDisk(ListedLines), TRUE, FALSE, GoodEnv).value

WithField(config, section, key, value) ==
    Put(config, section, Put(config[section], key, value))

ResaveConfigs ==
    { ListedConfig,
      WithField(ListedConfig, "server", "port", PyInt(7001)),
      WithField(ListedConfig, "general", "debug", PyBool(TRUE)),
      WithField(ListedConfig, "general", "channels", PyList(<<PyStr(<<"c">>)>>)),
      WithField(ListedConfig, "general", "channels",
                PyList(<<PyStr(<<"a">>), PyStr(<<"b">>), PyStr(<<"c">>)>>)),
      WithField(WithField(ListedConfig, "general", "channels", PyList(<<PyStr(<<"d">>)>>)),
                "server", "port", PyInt(7002)) }

\* out is the sequence of the documents saved so far.
ResaveInit ==
    /\ file = OnDisk(ListedLines)
    /\ _CONFIG = ListedConfig
    /\ pending = None
    /\ ret = None
    /\ hist = NoCalls
    /\ edits = 0
    /\ docker = FALSE
    /\ inp = None
    /\ out = <<>>

SaveDocument ==
    /\ Len(out) < MaxResaves
    /\ \E config \in ResaveConfigs :
          LET saved == SaveConfigRun(config, file, docker) IN
          /\ file' = IF saved.raised = "" THEN OnDisk(saved.lines) ELSE file
          /\ ret' = Call("SaveConfig", IF saved.raised = "" THEN "returned" ELSE saved.raised,
                         0, None, _CONFIG, <<>>, <<>>, <<>>)
          /\ out' = Append(out, config)
    /\ UNCHANGED <<_CONFIG, pending, hist, edits, docker, inp>>

SpecResave == ResaveInit /\ [][SaveDocument]_vars

\* C20: after SaveConfig(D1), SaveConfig(D2) on a well-formed file every
\* field of the file that D2 has, scalar or list, holds D2's value, and
\* the opening and closing lines of the list blocks in the file are lines
\* SaveConfig matches as list opening and list closing.
C20_SecondSaveWins ==
    (Len(out) >= 2 /\ Last("SaveConfig") /\ ret.outcome = "returned") =>
        LET config == out[Len(out)]
            parsed == YamlLoad(file.lines)
        IN  /\ parsed \notin {None, ParseError}
            /\ \A section \in DOMAIN parsed \cap DOMAIN config :
               \A key \in DOMAIN parsed[section] \cap DOMAIN config[section] :
                   SameValue(parsed[section][key], config[section][key])
            /\ \A i \in 1..Len(file.lines) :
                   /\ file.lines[i].shape = "lopen" => list_start_match(file.lines[i])
                   /\ file.lines[i].shape = "lclose" => list_end_match(file.lines[i])

(***************************************************************************)
(* LoadConfig on files that lack a key the normalization block reads       *)
(***************************************************************************)

\* Bound: the lines of the stock file the user deleted.
MaxDrops == 2

\* The keys the normalization block reads, and the sections they are in.
NormKeys == {"edcb_url", "mirakurun_url", "upload_folder", "debug_mode_ts_path"}
NormSections == {"general", "capture", "tv"}

\* The user deletes the line of a key before the server is started.
DropField ==
    /\ ret = None
    /\ edits < MaxDrops
    /\ \E key \in NormKeys :
          /\ DropKey(file.lines, key) # file.lines
          /\ file' = OnDisk(DropKey(file.lines, key))
    /\ edits' = edits + 1
    /\ UNCHANGED <<_CONFIG, pending, ret, hist, docker, inp, out>>

\* The user deletes a whole section.
DropBlock ==
    /\ ret = None
    /\ edits < MaxDrops
    /\ \E section \in NormSections :
          /\ DropSection(file.lines, section, FALSE) # file.lines
          /\ file' = OnDisk(DropSection(file.lines, section, FALSE))
    /\ edits' = edits + 1
    /\ UNCHANGED <<_CONFIG, pending, ret, hist, docker, inp, out>>

DropNext == DropField \/ DropBlock \/ LoadOnce

SpecDrop == LoadInit /\ [][DropNext]_vars

\* The normalization block met a missing key in the file as it is on disk.
NormSkipped ==
    LET config_raw == YamlLoad(file.lines) IN
    /\ config_raw \notin {None, ParseError}
    /\ Normalize(config_raw, docker).raised = "KeyError"

\* A str or Path value that starts with the container prefix.
Prefixed(value) == value.t \in {"str", "Path"} /\ StartsWith(value.v, _DOCKER_PATH_PREFIX)

\* C21: when the normalization block meets a missing key, the call with
\* either value of bypass_validation logs nothing but the messages of the
\* failure handler, does not return and leaves the singleton unset; in a
\* container no singleton holds an upload folder without the prefix.
C21_MissingKeyRejected ==
    /\ (ret # None /\ NormSkipped) =>
          /\ ret.outcome # "returned"
          /\ _CONFIG = None
    /\ (docker /\ _CONFIG # None /\ "upload_folder" \in DOMAIN _CONFIG["capture"]) =>
          Prefixed(_CONFIG["capture"]["upload_folder"])

(***************************************************************************)
(* SaveConfig on files its line scan fails on                              *)
(***************************************************************************)

\* Bound: the edits made by hand after the load.
MaxScanEdits == 2

\* What a user does to the file after the load: a scalar or a list line put
\* before the first section line, a section the document does not have, a
\* list written under the name of a bool field, a comment, another port.
ScanEdits(lines) ==
    { <<KvLine("legacy", <<"1">>)>> \o lines,
      <<Line(8, "lopen", "channels", "'", <<>>, "")>> \o lines,
      lines \o <<SecLine("extra"), KvLine("legacy", <<"1">>), SecEndLine>>,
      <<Head(lines), Line(8, "lopen", "debug", "'", <<>>, ""),
        Line(8, "lclose", "", "", <<>>, "")>> \o Tail(lines),
      <<Head(lines), CommentLine(8, "note")>> \o Tail(lines),
      SetTok(lines, "port", IntToAtoms(7001)) }

\* The file with the lines written as the loop makes them.
FileWrittenInLoop(scan, disk) == OnDisk(scan.new_lines)

\* The file after the loop: written from new_lines once the loop has ended,
\* left alone when the loop raised.
FileAfterScan(scan, disk) ==
    IF scan.raised # "" THEN disk ELSE OnDisk(scan.new_lines)

ScanEdit ==
    /\ Last("LoadConfig")
    /\ ret.outcome = "returned"
    /\ edits < MaxScanEdits
    /\ \E lines \in ScanEdits(file.lines) : file' = OnDisk(lines)
    /\ edits' = edits + 1
    /\ UNCHANGED <<_CONFIG, pending, ret, hist, docker, inp, out>>

\* SaveConfig(Config()); inp keeps the file as it was before the call and
\* the loop's variables as the call left them.
SaveScan ==
    /\ Last("LoadConfig")
    /\ ret.outcome = "returned"
    /\ IF SaveDictRaises(_CONFIG, docker)
       THEN /\ file' = file
            /\ ret' = Call("SaveConfig", "KeyError", 0, None, _CONFIG, <<>>, <<>>, <<>>)
            /\ inp' = [before |-> file, scan |-> None]
       ELSE LET scan == ScanLines(Scan("", FALSE, <<>>, ""), file.lines, 1,
                                  Len(file.lines), SaveDict(_CONFIG, docker))
            IN  /\ file' = FileAfterScan(scan, file)
                /\ ret' = Call("SaveConfig",
                               IF scan.raised = "" THEN "returned" ELSE scan.raised,
                               0, None, _CONFIG, <<>>, <<>>, <<>>)
                /\ inp' = [before |-> file, scan |-> scan]
    /\ _CONFIG' = DocumentAfterSave(_CONFIG, SaveDict(_CONFIG, docker))
    /\ UNCHANGED <<pending, hist, edits, docker, out>>

ScanNext == LoadOnce \/ ScanEdit \/ SaveScan

SpecScan == LoadInit /\ [][ScanNext]_vars

\* C22: a SaveConfig call that raises, before or in its loop over the
\* lines, leaves config.yaml as it was before the call, whatever the loop
\* had put in new_lines by then, and leaves the singleton as it was; the
\* file is written only by a call whose loop ended, from the loop's lines.
C22_RaiseLeavesFile ==
    [][(ret' # None /\ ret'.op = "SaveConfig" /\ ret # ret') =>
          /\ _CONFIG' = _CONFIG
          /\ ret'.outcome # "returned" => file' = file
          /\ file' # file =>
                /\ inp'.scan # None /\ inp'.scan.raised = ""
                /\ file' = OnDisk(inp'.scan.new_lines)
          /\ ret'.outcome = SaveConfigRun(_CONFIG, file, docker).raised
             \/ (ret'.outcome = "returned"
                 /\ file' = OnDisk(SaveConfigRun(_CONFIG, file, docker).lines))]_vars

\* The user appended a section the document does not have; SaveConfig
\* raised KeyError at its scalar line with the lines of the five stock
\* sections already in new_lines, and the file is as the user left it.
C22_Witness ==
    /\ Last("SaveConfig")
    /\ ret.outcome = "KeyError"
    /\ inp.scan # None
    /\ inp.scan.current_parent_key = "extra"
    /\ Len(inp.scan.new_lines) > Len(BaseLines)
    /\ file = inp.before
    /\ HasLine(file.lines, SecLine("extra"))
    /\ _CONFIG # None

=============================================================================
